---------------------------- MODULE Spec2Model ----------------------------
(***************************************************************************)
(* CAN-SCRIPT-LOGGER: the acquisition thread (CANReader.run), the mirror   *)
(* rule engine (CANMirrorEngine) and the trace writer of PCANViewClone.    *)
(* Each component has its own specification over the shared variable list; *)
(* a component's specification leaves the other components' variables at   *)
(* their constructed values.                                               *)
(***************************************************************************)
EXTENDS Integers, Sequences, FiniteSets, TLC

VARIABLES
    \* ---- CANReader (src/pcan_logger.py:408-507)
    pc,             \* position of the acquisition thread inside run()
    running,        \* CANReader.running
    connected,      \* CANReader.connected
    ever_connected, \* CANReader.ever_connected
    channel_open,   \* the driver channel: Initialize succeeded, no Uninitialize since
    events,         \* what the thread has emitted so far, in order
    \* ---- CANMirrorEngine (src/can_mirror.py)
    rules,          \* CANMirrorEngine.rules: rx_id -> rule
    last_rx_data,   \* CANMirrorEngine.last_rx_data: rx_id -> received bytes
    on_tx,          \* whether a callback is installed in CANMirrorEngine.on_tx
    clock,          \* time.time() * 1000, the wall clock in ms
    last,           \* what the latest handle_rx call received and did
    sent,           \* rx_id -> clock of the latest transmissions of its current rule
    \* ---- PCANViewClone, trace logging (src/pcan_logger.py:1581-1782)
    logging,            \* PCANViewClone.logging
    files,              \* the trace files of log_handler, oldest first, as lines
    message_count,      \* PCANViewClone.message_count
    log_base_ts_us,     \* PCANViewClone.log_base_ts_us: <<>> is None
    log_ts_offset_us,   \* PCANViewClone._log_ts_offset_us: <<>> is None
    header_written,     \* PCANViewClone.header_written
    mono,               \* time.monotonic_ns() // 1000
    drv,                \* the driver's timestamp counter, in us
    last_drv_ts,        \* the driver timestamp of the latest frame processed
    mapped,             \* the latest _log_timestamp_us(d) calls under the current offset
    \* ---- PCANViewClone, connection handling (src/pcan_logger.py:1195-1311)
    reader,         \* PCANViewClone.reader: "none" or "alive"
    gui,            \* the GUI thread: "idle", or where it waits for the reader to end
    is_connected,   \* PCANViewClone.is_connected
    stale,          \* a connectivity-true was handled since the offset was anchored
    handled,        \* the latest frame handled by process_message, <<>> before it
    \* ---- CSVLogger and MCUCSVLogger (src/pcan_logger.py:64-399)
    csv_logger,     \* PCANViewClone.csv_logger, the fields of the CSVLogger
    mcu_logger,     \* PCANViewClone.mcu_logger, the fields of the MCUCSVLogger
    fed,            \* the latest frame signal the two loggers received, <<>> before it
    \* ---- CANMirrorEngine used by two execution contexts (src/can_mirror.py)
    in_rx,          \* the handle_rx call under way, <<>> between calls
    shown,          \* what the display read with get_rx_bytes last, <<>> before it
    \* ---- frames on their way from CANReader.run to process_message
    rx_queue,       \* the message_received signals emitted and not delivered yet
    arrived,        \* how many frames the reader has emitted
    written_rx,     \* the Rx lines written: arrival number, file and sequence number
    \* ---- stop() of CSVLogger and MCUCSVLogger against their write loops
    writer,         \* per logger, where its writer thread is in _write_loop
    stopping,       \* per logger, where the GUI thread is in stop()
    closed,         \* per logger, whether its file object was closed
    pending,        \* per logger, the rows in the buffer of its file object
    \* ---- the driver handle shared by the reader thread and the transmit path
    tx_call,        \* the driver Write the GUI thread is in, <<>> outside one
    \* ---- faults of the file system
    faults,         \* the sinks that met a fault since logging started
    \* ---- MCUCSVLogger.handle_message against its write loop
    handling        \* the handle_message call between its two locked blocks, <<>> outside

readerVars == <<pc, running, connected, ever_connected, channel_open, events>>
mirrorVars == <<rules, last_rx_data, on_tx, clock, last, sent>>
traceVars == <<logging, files, message_count, log_base_ts_us, log_ts_offset_us,
               header_written, mono, drv, last_drv_ts, mapped>>
sessionVars == <<reader, gui, is_connected, stale, handled>>
loggerVars == <<csv_logger, mcu_logger, fed>>
threadVars == <<in_rx, shown>>
orderVars == <<rx_queue, arrived, written_rx>>
stopVars == <<writer, stopping, closed, pending>>
driverVars == <<tx_call>>
faultVars == <<faults>>
handlerVars == <<handling>>
notReaderVars ==
    <<mirrorVars, traceVars, sessionVars, loggerVars, threadVars, orderVars, stopVars, handlerVars,
      driverVars, faultVars>>
notMirrorVars ==
    <<readerVars, traceVars, sessionVars, loggerVars, threadVars, orderVars, stopVars, handlerVars,
      driverVars, faultVars>>
notTraceVars ==
    <<readerVars, mirrorVars, sessionVars, loggerVars, threadVars, orderVars, stopVars, handlerVars,
      driverVars, faultVars>>
notSessionVars ==
    <<mirrorVars, loggerVars, threadVars, orderVars, stopVars, handlerVars,
      driverVars, faultVars>>
notLoggerVars ==
    <<readerVars, mirrorVars, sessionVars, threadVars, orderVars, stopVars, handlerVars,
      driverVars, faultVars>>
notThreadVars == <<readerVars, traceVars, sessionVars, loggerVars, orderVars, stopVars, handlerVars,
      driverVars, faultVars>>
notOrderVars ==
    <<readerVars, mirrorVars, sessionVars, loggerVars, threadVars, stopVars, handlerVars,
      driverVars, faultVars>>
notLoggerStopVars ==
    <<readerVars, mirrorVars, sessionVars, threadVars, orderVars,
      driverVars, faultVars, handlerVars>>
notDriverVars ==
    <<readerVars, mirrorVars, traceVars, sessionVars, loggerVars, threadVars,
      orderVars, stopVars, handlerVars, faultVars>>
notTraceFaultVars ==
    <<readerVars, mirrorVars, sessionVars, loggerVars, threadVars, orderVars,
      stopVars, handlerVars, driverVars>>
notLoggerFaultVars ==
    <<readerVars, mirrorVars, sessionVars, threadVars, orderVars, stopVars, handlerVars,
      driverVars>>

vars == <<pc, running, connected, ever_connected, channel_open, events,
          rules, last_rx_data, on_tx, clock, last, sent,
          logging, files, message_count, log_base_ts_us, log_ts_offset_us,
          header_written, mono, drv, last_drv_ts, mapped,
          reader, gui, is_connected, stale, handled,
          csv_logger, mcu_logger, fed, in_rx, shown,
          rx_queue, arrived, written_rx, writer, stopping, closed, pending,
          tx_call, faults, handling>>

(***************************************************************************)
(* Bounds                                                                  *)
(***************************************************************************)
\* The driver stops producing outcomes that emit once this many events are out.
MaxEvents == 5
\* The wall clock advances this many times, one ms each.
MaxTicks == 3
\* The transmissions remembered per rule for the rate-limit claims.
MaxLog == 2
\* The longest byte-rule table drawn.
MaxByteRules == 2
\* The frame lengths drawn are 0..MaxLen.
MaxLen == 2
\* The monotonic clock advances this many times.
MaxMonoTicks == 3
\* The data lines written to the trace files of one handler.
MaxEntries == 5
\* The timestamp mappings remembered under one offset.
MaxMapped == 2
\* The snapshot rows written to one CSV file.
MaxRows == 1
\* The frames an activated MCUCSVLogger counts in one session.
MaxUpdates == 3
\* The frames the reader emits to process_message.
MaxArrivals == 3
\* The comment lines written to the trace files of one handler.
MaxComments == 2
\* The monotonic clock advances this many times while comments are written.
MaxCommentTicks == 1
\* The steps the driver's counter takes between two restarts.
MaxDriverTicks == 1

(***************************************************************************)
(* CANReader.run                                                           *)
(***************************************************************************)
InitOutcomes == {"ok", "fail", "exc"}
StatusOutcomes == {"ok", "bad", "exc"}
ReadOutcomes == {"ok", "empty", "err", "exc"}

\* An outcome is quiet when handling it emits nothing.
Room == Len(events) + 2 <= MaxEvents

InitReader ==
    /\ pc = "loop"
    /\ running = TRUE
    /\ connected = FALSE
    /\ ever_connected = FALSE
    /\ channel_open = FALSE
    /\ events = <<>>

\* stop(): another thread clears the flag at any point of the run.
Stop ==
    /\ running = TRUE
    /\ running' = FALSE
    /\ UNCHANGED <<pc, connected, ever_connected, channel_open, events>>
    /\ UNCHANGED notReaderVars

\* `while self.running:` followed by `if not self.connected:`
LoopHead ==
    /\ pc = "loop"
    /\ pc' = IF ~running THEN "stopping"
             ELSE IF ~connected THEN "init" ELSE "status"
    /\ UNCHANGED <<running, connected, ever_connected, channel_open, events>>
    /\ UNCHANGED notReaderVars

\* What a failed Initialize reports to the consumers: nothing.
\* (InitFailEventsDisconnect: a failed Initialize reported as a disconnect.)
InitFailEventsDisconnect == <<"conn_false">>
InitFailEvents == <<>>

\* The Initialize call and the handling of its result.
Initialize ==
    /\ pc = "init"
    /\ \E r \in InitOutcomes :
        /\ (r # "fail") => Room
        /\ LET diag == IF r = "exc" THEN <<"diag">> ELSE <<>>
           IN IF r = "ok"
              THEN /\ connected' = TRUE
                   /\ ever_connected' = TRUE
                   /\ channel_open' = TRUE
                   /\ events' = events \o <<"conn_true">>
                   /\ pc' = "status"
              ELSE /\ events' = events \o diag \o InitFailEvents
                   /\ pc' = "loop"
                   /\ UNCHANGED <<connected, ever_connected, channel_open>>
    /\ UNCHANGED <<running, notReaderVars>>

\* What losing the connection reports: connectivity-false, once connected before.
\* (LostEventsSilent: a loss that reports nothing; LostEventsTwice: a loss
\* reported twice.)
LostEventsSilent(ever) == <<>>
LostEventsTwice(ever) == <<"conn_false", "conn_false">>
LostEvents(ever) == IF ever THEN <<"conn_false">> ELSE <<>>

\* Uninitialize(channel) on the way out of the connected state.
\* (UninitializeSkipped: the channel left as it was.)
UninitializeSkipped(open) == open
Uninitialized(open) == FALSE

\* Where run() goes after an abnormal status: `continue`, line 461.
\* (AbnormalStatusFallsThrough: on to the Read of the same cycle.)
AbnormalStatusFallsThrough == "read"
AbnormalStatusNext == "loop"

\* The GetStatus call; an abnormal status uninitializes and reports.
GetStatus ==
    /\ pc = "status"
    /\ \E s \in StatusOutcomes :
        /\ (s # "ok") => Room
        /\ LET diag == IF s = "exc" THEN <<"diag">> ELSE <<>>
           IN IF s = "ok"
              THEN /\ pc' = "read"
                   /\ UNCHANGED <<connected, channel_open, events>>
              ELSE /\ connected' = FALSE
                   /\ channel_open' = Uninitialized(channel_open)
                   /\ events' = events \o diag \o LostEvents(ever_connected)
                   /\ pc' = AbnormalStatusNext
    /\ UNCHANGED <<running, ever_connected, notReaderVars>>

\* What a Read that returned an error code leaves of self.connected: lines
\* 489-493 do not touch it. (ReadErrorDisconnects: an error code handled as a
\* lost connection.)
ReadErrorDisconnects(c) == FALSE
ReadErrorKeeps(c) == c

\* The Read call and the dispatch on its result.
Read ==
    /\ pc = "read"
    /\ \E r \in ReadOutcomes :
        /\ (r # "empty") => Room
        /\ CASE r = "exc" ->
                  /\ events' = events \o <<"diag">> \o LostEvents(ever_connected)
                  /\ connected' = FALSE
                  /\ channel_open' = Uninitialized(channel_open)
             [] r = "ok" ->
                  /\ events' = events \o <<"frame">>
                  /\ UNCHANGED <<connected, channel_open>>
             [] r = "empty" ->
                  UNCHANGED <<events, connected, channel_open>>
             [] r = "err" ->
                  /\ events' = events \o <<"diag">>
                  /\ connected' = ReadErrorKeeps(connected)
                  /\ UNCHANGED channel_open
    /\ pc' = "loop"
    /\ UNCHANGED <<running, ever_connected, notReaderVars>>

\* What the end of the thread reports.
\* (StopEventsAlways: the report without the guard of line 502;
\* StopEventsNever: an end that reports nothing.)
StopEventsAlways(c, ever) == <<"conn_false">>
StopEventsNever(c, ever) == <<>>
StopEvents(c, ever) == IF c /\ ever THEN <<"conn_false">> ELSE <<>>

\* After the loop: uninitialize if connected, report, clear the flag.
Halt ==
    /\ pc = "stopping"
    /\ events' = events \o StopEvents(connected, ever_connected)
    /\ channel_open' = (IF connected THEN Uninitialized(channel_open)
                                     ELSE channel_open)
    /\ connected' = FALSE
    /\ pc' = "halted"
    /\ UNCHANGED <<running, ever_connected, notReaderVars>>

(***************************************************************************)
(* CANMirrorEngine                                                         *)
(***************************************************************************)
\* Identifiers of received frames.
RxIds == {256, 257}
\* Payload bytes drawn for the meaningful part of a frame.
ByteVals == {0, 5}
\* What the part of DATA beyond LEN holds: left over from earlier frames.
StaleByte == 170
\* The positive throttling interval drawn, in ms.
Interval == 2
\* The wall clock at construction: far beyond any interval, as the epoch time is.
ClockStart == 10

\* The payloads drawn: up to MaxLen meaningful bytes.
Payloads == UNION { [1..n -> ByteVals] : n \in 0..MaxLen }

\* TPCANMsg as received: DATA always has 8 bytes, the first LEN are meaningful.
Frames ==
    { [ID |-> i, LEN |-> Len(p),
       DATA |-> [k \in 1..8 |-> IF k <= Len(p) THEN p[k] ELSE StaleByte]] :
      i \in RxIds, p \in Payloads }

\* The frames received while rules come and go: both identifiers, LEN 0 or 1.
MirrorFrames == { f \in Frames : f.LEN <= 1 }

\* The frames received on the identifier of the rule under test.
TransformFrames == { f \in Frames : f.ID = 256 }

\* One entry of a rule's byte_rules list.
ByteRuleSet ==
    [index : {0, 1}, mode : {"offset", "replace"}, value : {-10, 0, 5, 10, 300}]

\* msg.DATA[:msg.LEN] with each byte masked to 8 bits (line 65).
RxData(msg) == [k \in 1..msg.LEN |-> msg.DATA[k] % 256]

\* get_rx_bytes: the cached bytes, cut to 8 and padded with zeros to 8.
get_rx_bytes(rx_id) ==
    LET data == IF rx_id \in DOMAIN last_rx_data THEN last_rx_data[rx_id] ELSE <<>>
    IN [k \in 1..8 |-> IF k <= Len(data) THEN data[k] ELSE 0]

\* What the cache holds once the working copy was transformed: the working copy
\* is a copy (line 86), so the cached list is as received.
\* (CachedAfterAliased: the working copy and the cached list as one list.)
CachedAfterAliased(rx_data, data) == data
CachedAfter(rx_data, data) == rx_data

\* The clamp of lines 110-118. (ClampNone: no clamp.)
ClampNone(v) == v
Clamp(v) == IF v < 0 THEN 0 ELSE IF v > 255 THEN 255 ELSE v

\* The offset branch, lines 103-120: a zero byte is left alone.
\* (OffsetByteNoZeroTest: the offset added to a zero byte as well.)
OffsetByteNoZeroTest(original, val) == Clamp(original + val)
OffsetByte(original, val) ==
    IF original = 0 THEN original ELSE Clamp(original + val)

\* The replace branch, line 123. (ReplaceByteUnmasked: without the mask.)
ReplaceByteUnmasked(original, val) == val
ReplaceByte(original, val) == val % 256

\* One pass of the loop body of lines 91-123 on the working copy.
ApplyByteRule(data, br) ==
    LET idx == br.index
    IN IF ~(0 <= idx /\ idx < Len(data)) THEN data
       ELSE IF br.mode = "offset"
            THEN [data EXCEPT ![idx + 1] = OffsetByte(data[idx + 1], br.value)]
       ELSE IF br.mode = "replace"
            THEN [data EXCEPT ![idx + 1] = ReplaceByte(data[idx + 1], br.value)]
       ELSE data

\* (WorkingFromReceived: every byte rule reading the received byte at its
\* index instead of the one the earlier rules left.)
RECURSIVE WorkingFromReceived(_, _, _)
WorkingFromReceived(data, brs, n) ==
    IF n = 0 THEN data
    ELSE LET prev == WorkingFromReceived(data, brs, n - 1)
             idx == brs[n].index
         IN IF ~(0 <= idx /\ idx < Len(data)) THEN prev
            ELSE [prev EXCEPT ![idx + 1] = ApplyByteRule(data, brs[n])[idx + 1]]

\* The working copy after the first n byte rules.
RECURSIVE Working(_, _, _)
Working(data, brs, n) ==
    IF n = 0 THEN data
    ELSE ApplyByteRule(Working(data, brs, n - 1), brs[n])

\* The working copies in order: before any rule, after the first, ...
WorkingCopies(data, brs) == [n \in 1..(Len(brs) + 1) |-> Working(data, brs, n - 1)]

\* The frame handle_rx builds, lines 81-132.
\* (BuildTxKeepId: under the received identifier. BuildTxStalePad: the bytes
\* beyond LEN taken from the received DATA instead of zeros.)
BuildTxKeepId(msg, rule, data) ==
    [ID |-> msg.ID, LEN |-> msg.LEN,
     DATA |-> [k \in 1..8 |-> IF k <= Len(data) THEN data[k] ELSE 0],
     MSGTYPE |-> IF rule.extended THEN "extended" ELSE "standard"]
BuildTxStalePad(msg, rule, data) ==
    [ID |-> rule.tx_id, LEN |-> msg.LEN,
     DATA |-> [k \in 1..8 |-> IF k <= Len(data) THEN data[k] ELSE msg.DATA[k]],
     MSGTYPE |-> IF rule.extended THEN "extended" ELSE "standard"]
BuildTx(msg, rule, data) ==
    [ID |-> rule.tx_id, LEN |-> msg.LEN,
     DATA |-> [k \in 1..8 |-> IF k <= Len(data) THEN data[k] ELSE 0],
     MSGTYPE |-> IF rule.extended THEN "extended" ELSE "standard"]

\* The interval test of lines 74-76: TRUE when the receipt is rate-limited.
\* (RateLimitedNever: no interval test.)
RateLimitedNever(rule, now) == FALSE
RateLimited(rule, now) ==
    rule.interval > 0 /\ now - rule.last_sent < rule.interval

\* The dict entry add_rule stores, lines 32-39.
NewRule(tx_id, extended, interval_ms, byte_rules) ==
    [tx_id |-> tx_id, extended |-> extended, interval |-> interval_ms,
     last_sent |-> 0, enabled |-> TRUE, byte_rules |-> byte_rules]

\* A dict with key k set to v.
\* (PutIfAbsent: an entry that is there already is kept.)
PutIfAbsent(d, k, v) == [x \in DOMAIN d \cup {k} |-> IF x \in DOMAIN d THEN d[x] ELSE v]
Put(d, k, v) == [x \in DOMAIN d \cup {k} |-> IF x = k THEN v ELSE d[x]]
\* A dict without key k.
Pop(d, k) == [x \in DOMAIN d \ {k} |-> d[x]]

EmptyDict == [x \in {} |-> 0]
NothingHandled ==
    [rx |-> <<>>, rule |-> <<>>, work |-> <<>>, written |-> <<>>,
     result |-> "none", notified |-> <<>>]

\* The transmissions of rx_id are forgotten when its rule is replaced or removed.
ForgetRule(log, rx_id) == [log EXCEPT ![rx_id] = <<>>]
\* The log keeps the clock of the latest MaxLog transmissions of a rule.
Remember(log, rx_id, t) ==
    LET l == log[rx_id] \o <<t>>
    IN [log EXCEPT ![rx_id] = IF Len(l) > MaxLog THEN SubSeq(l, 2, Len(l)) ELSE l]

\* The identifiers the caller configures rules for.
RuleIds == {256}

\* The rule configurations the caller adds while the engine runs.
RuleConfigs ==
    { NewRule(512, FALSE, 0, << [index |-> 0, mode |-> "offset", value |-> 10] >>),
      NewRule(513, TRUE, Interval,
              << [index |-> 0, mode |-> "replace", value |-> 300] >>) }

add_rule ==
    \E rx_id \in RuleIds, cfg \in RuleConfigs :
        /\ rules' = Put(rules, rx_id,
                        NewRule(cfg.tx_id, cfg.extended, cfg.interval, cfg.byte_rules))
        /\ sent' = ForgetRule(sent, rx_id)
        /\ UNCHANGED <<last_rx_data, on_tx, clock, last, notMirrorVars>>

remove_rule ==
    \E rx_id \in RxIds :
        /\ rx_id \in DOMAIN rules
        /\ rules' = Pop(rules, rx_id)
        /\ sent' = ForgetRule(sent, rx_id)
        /\ UNCHANGED <<last_rx_data, on_tx, clock, last, notMirrorVars>>

enable_rule ==
    \E rx_id \in RxIds, enable \in BOOLEAN :
        /\ rx_id \in DOMAIN rules
        /\ rules[rx_id].enabled # enable
        /\ rules' = [rules EXCEPT ![rx_id].enabled = enable]
        /\ UNCHANGED <<last_rx_data, on_tx, clock, last, sent, notMirrorVars>>

\* The owner installs its callback: engine.on_tx = callback.
set_on_tx ==
    /\ on_tx = FALSE
    /\ on_tx' = TRUE
    /\ UNCHANGED <<rules, last_rx_data, clock, last, sent, notMirrorVars>>

\* The wall clock moves on between calls.
Tick ==
    /\ clock < ClockStart + MaxTicks
    /\ clock' = clock + 1
    /\ UNCHANGED <<rules, last_rx_data, on_tx, last, sent, notMirrorVars>>

\* The test of lines 68-70: TRUE when handle_rx returns after the cache update.
\* (NoRuleIgnoresEnabled: the test without the enabled flag.)
NoRuleIgnoresEnabled(rs, rx_id) == rx_id \notin DOMAIN rs
NoRule(rs, rx_id) == rx_id \notin DOMAIN rs \/ ~rs[rx_id].enabled

\* The test of line 138 on what Write returned.
\* (WriteSucceededAlways: the result of Write not looked at.)
WriteSucceededAlways(wr) == TRUE
WriteSucceeded(wr) == wr = "ok"

\* handle_rx(msg), with the outcome wr of the driver Write it may issue.
HandleRx(msg, wr) ==
    LET rx_id == msg.ID
        rx_data == RxData(msg)
        now == clock
    IN /\ UNCHANGED <<on_tx, clock, notMirrorVars>>
       /\ IF NoRule(rules, rx_id)
          THEN /\ wr = "none"
               /\ last_rx_data' = Put(last_rx_data, rx_id, rx_data)
               /\ last' = [NothingHandled EXCEPT !.rx = <<msg>>]
               /\ UNCHANGED <<rules, sent>>
          ELSE LET rule == rules[rx_id]
               IN IF RateLimited(rule, now)
                  THEN /\ wr = "none"
                       /\ last_rx_data' = Put(last_rx_data, rx_id, rx_data)
                       /\ last' = [NothingHandled EXCEPT
                                     !.rx = <<msg>>, !.rule = <<rule>>]
                       /\ UNCHANGED <<rules, sent>>
                  ELSE LET work == WorkingCopies(rx_data, rule.byte_rules)
                           data == work[Len(work)]
                           tx == BuildTx(msg, rule, data)
                       IN /\ wr # "none"
                          /\ last_rx_data' =
                                Put(last_rx_data, rx_id, CachedAfter(rx_data, data))
                          /\ last' = [rx |-> <<msg>>, rule |-> <<rule>>,
                                      work |-> work, written |-> <<tx>>,
                                      result |-> wr,
                                      notified |-> IF WriteSucceeded(wr) /\ on_tx
                                                   THEN <<tx>> ELSE <<>>]
                          /\ rules' = IF WriteSucceeded(wr)
                                      THEN [rules EXCEPT ![rx_id].last_sent = now]
                                      ELSE rules
                          /\ sent' = IF WriteSucceeded(wr)
                                     THEN Remember(sent, rx_id, now) ELSE sent

\* What the driver Write returns; "none" when handle_rx returns before it.
WriteOutcomes == {"ok", "fail", "none"}

\* handle_rx on the frames of a bus where rules are added and removed.
handle_rx ==
    \E msg \in MirrorFrames, wr \in WriteOutcomes : HandleRx(msg, wr)

\* The first handle_rx after add_rule, on any frame of the rule's identifier.
handle_rx_fixed_rule ==
    /\ last.rx = <<>>
    /\ \E msg \in TransformFrames, wr \in WriteOutcomes : HandleRx(msg, wr)

InitMirror ==
    /\ rules = EmptyDict
    /\ last_rx_data = EmptyDict
    /\ on_tx = FALSE
    /\ clock = ClockStart
    /\ last = NothingHandled
    /\ sent = [i \in RxIds |-> <<>>]

\* Byte-rule tables of up to MaxByteRules entries.
ByteRuleTables ==
    UNION { [1..n -> ByteRuleSet] : n \in 0..MaxByteRules }

\* An engine on which add_rule(256, 512, extended, 0, table) was just called.
InitTransform ==
    /\ \E extended \in BOOLEAN, table \in ByteRuleTables :
          rules = Put(EmptyDict, 256, NewRule(512, extended, 0, table))
    /\ last_rx_data = EmptyDict
    /\ on_tx = FALSE
    /\ clock = ClockStart
    /\ last = NothingHandled
    /\ sent = [i \in RxIds |-> <<>>]

(***************************************************************************)
(* CANMirrorEngine called from two execution contexts                      *)
(*                                                                         *)
(* No method of the engine takes a lock, so a call made by another thread  *)
(* can run between any two statements of handle_rx. Here handle_rx is cut  *)
(* once, after the rule lookup of lines 68-70.                             *)
(***************************************************************************)
\* The rule object handle_rx holds is no longer the one in the table once
\* add_rule or remove_rule ran for its identifier.
Detached(call, rx_id) ==
    IF call # <<>> /\ call[1].msg.ID = rx_id
    THEN << [call[1] EXCEPT !.detached = TRUE] >>
    ELSE call

InitThreads ==
    /\ in_rx = <<>>
    /\ shown = <<>>

\* handle_rx(msg), lines 62-70: the bytes cached, the rule fetched.
handle_rx_lookup ==
    /\ in_rx = <<>>
    /\ \E msg \in MirrorFrames :
          /\ last_rx_data' = Put(last_rx_data, msg.ID, RxData(msg))
          /\ IF msg.ID \notin DOMAIN rules \/ ~rules[msg.ID].enabled
             THEN /\ last' = [NothingHandled EXCEPT !.rx = <<msg>>]
                  /\ in_rx' = <<>>
             ELSE /\ last' = last
                  /\ in_rx' = << [msg |-> msg, rule |-> rules[msg.ID],
                                  detached |-> FALSE] >>
    /\ UNCHANGED <<rules, on_tx, clock, sent, shown, notThreadVars>>

\* handle_rx(msg), lines 73-143, on the rule object fetched before.
handle_rx_transmit ==
    /\ in_rx # <<>>
    /\ LET msg == in_rx[1].msg
           rx_id == msg.ID
           same == ~in_rx[1].detached
           rule == IF same THEN rules[rx_id] ELSE in_rx[1].rule
           now == clock
       IN \E wr \in WriteOutcomes :
            IF RateLimited(rule, now)
            THEN /\ wr = "none"
                 /\ last' = [NothingHandled EXCEPT
                               !.rx = <<msg>>, !.rule = <<rule>>]
                 /\ UNCHANGED <<rules, sent>>
            ELSE LET work == WorkingCopies(RxData(msg), rule.byte_rules)
                     tx == BuildTx(msg, rule, work[Len(work)])
                 IN /\ wr # "none"
                    /\ last' = [rx |-> <<msg>>, rule |-> <<rule>>,
                                work |-> work, written |-> <<tx>>,
                                result |-> wr,
                                notified |-> IF wr = "ok" /\ on_tx
                                             THEN <<tx>> ELSE <<>>]
                    /\ rules' = IF wr = "ok" /\ same
                                THEN [rules EXCEPT ![rx_id].last_sent = now]
                                ELSE rules
                    /\ sent' = IF wr = "ok" /\ same
                               THEN Remember(sent, rx_id, now) ELSE sent
    /\ in_rx' = <<>>
    /\ UNCHANGED <<last_rx_data, on_tx, clock, shown, notThreadVars>>

\* add_rule, remove_rule and enable_rule called by the other context.
add_rule_concurrent ==
    \E rx_id \in RuleIds, cfg \in RuleConfigs :
        /\ rules' = Put(rules, rx_id,
                        NewRule(cfg.tx_id, cfg.extended, cfg.interval, cfg.byte_rules))
        /\ sent' = ForgetRule(sent, rx_id)
        /\ in_rx' = Detached(in_rx, rx_id)
        /\ UNCHANGED <<last_rx_data, on_tx, clock, last, shown, notThreadVars>>

remove_rule_concurrent ==
    \E rx_id \in RuleIds :
        /\ rx_id \in DOMAIN rules
        /\ rules' = Pop(rules, rx_id)
        /\ sent' = ForgetRule(sent, rx_id)
        /\ in_rx' = Detached(in_rx, rx_id)
        /\ UNCHANGED <<last_rx_data, on_tx, clock, last, shown, notThreadVars>>

enable_rule_concurrent ==
    \E rx_id \in RuleIds, enable \in BOOLEAN :
        /\ rx_id \in DOMAIN rules
        /\ rules[rx_id].enabled # enable
        /\ rules' = [rules EXCEPT ![rx_id].enabled = enable]
        /\ UNCHANGED <<last_rx_data, on_tx, clock, last, sent, in_rx, shown,
                       notThreadVars>>

\* get_rx_bytes(rx_id) called by the display.
get_rx_bytes_concurrent ==
    \E rx_id \in RxIds :
        /\ shown' = << [rx_id |-> rx_id, bytes |-> get_rx_bytes(rx_id)] >>
        /\ shown' # shown
        /\ UNCHANGED <<rules, last_rx_data, on_tx, clock, last, sent, in_rx,
                       notThreadVars>>

(***************************************************************************)
(* PCANViewClone: timestamp mapping and trace writer                       *)
(***************************************************************************)
\* The clock advances MonoStep us at a time from MonoStart; the driver counts
\* from its own origin.
MonoStep == 60
MonoStart == 600
\* log_handler.max_size and the size of the header block, in data lines.
TraceMaxSize == 3
HeaderSize == 1

HeaderLine == [kind |-> "header", seq |-> 0, off |-> 0, ts |-> 0, dir |-> "-"]

\* os.path.getsize of a trace file.
LineSize(l) == IF l.kind = "header" THEN HeaderSize ELSE 1
RECURSIVE FileSize(_)
FileSize(f) == IF f = <<>> THEN 0 ELSE LineSize(Head(f)) + FileSize(Tail(f))

\* f"{offset_ms:11.1f}" of (d / 1000.0): d us as tenths of a ms, to the nearest.
Tenths(d) == IF d >= 0 THEN (d + 50) \div 100 ELSE -((50 - d) \div 100)

\* LogFileHandler.start_new_file: the current file is closed, an empty one opened.
start_new_file(fs) == Append(fs, <<>>)

\* _on_log_file_rotated, called by the handler on rotation.
OnLogFileRotated(st) == [st EXCEPT !.message_count = 0, !.base = <<>>]

\* Lines 1756-1759: numbering and time base restart in a rotated file.
\* (AfterRotationKeep: without that restart.)
\* (AfterRotationFromZero: the first entry of the rotated file numbered 0.)
AfterRotationKeep(st) == st
AfterRotationFromZero(st) ==
    [st EXCEPT !.message_count = 0, !.msg_num = 0, !.base = <<>>]
AfterRotation(st) == [st EXCEPT !.message_count = 1, !.msg_num = 1, !.base = <<>>]

\* Lines 1749-1751: whether write_trc_entry rotates before writing.
MustRotate(fs) == FileSize(fs[Len(fs)]) >= TraceMaxSize

\* _log_timestamp_us(driver_ts_us) for a concrete driver timestamp: the offset
\* it leaves and the value it returns.
\* (AnchoredOffsetEveryCall: an offset taken anew at every call.)
AnchoredOffsetEveryCall(offset, driver_ts_us) == <<mono - driver_ts_us>>
AnchoredOffset(offset, driver_ts_us) ==
    IF offset = <<>> THEN <<mono - driver_ts_us>> ELSE offset
LogTimestamp(offset, driver_ts_us) ==
    driver_ts_us + AnchoredOffset(offset, driver_ts_us)[1]

\* The calls of _log_timestamp_us(d) made since the offset was anchored, the
\* latest MaxMapped of them: d, the value returned, the host clock at the call.
Mapping(offset, driver_ts_us) ==
    [d |-> driver_ts_us, t |-> LogTimestamp(offset, driver_ts_us), at |-> mono]
MappedAfter(offset, driver_ts_us) ==
    LET all == (IF offset = <<>> THEN <<>> ELSE mapped)
                   \o << Mapping(offset, driver_ts_us) >>
    IN IF Len(all) > MaxMapped THEN Tail(all) ELSE all

\* write_trc_entry(msg_num, ts_us, msg, tx) with log_handler set and the file
\* system accepting every write and file creation.
write_trc_entry(msg_num, ts_us, direction) ==
    LET st0 == [message_count |-> msg_num, msg_num |-> msg_num,
                base |-> log_base_ts_us]
        rotated == MustRotate(files)
        fs1 == IF rotated THEN start_new_file(files) ELSE files
        st1 == IF rotated THEN AfterRotation(OnLogFileRotated(st0)) ELSE st0
        base == IF st1.base = <<>> THEN <<ts_us>> ELSE st1.base
        line == [kind |-> "data", seq |-> st1.msg_num,
                 off |-> Tenths(ts_us - base[1]), ts |-> ts_us,
                 dir |-> direction]
    IN /\ files' = [fs1 EXCEPT ![Len(fs1)] = Append(@, line)]
       /\ message_count' = st1.message_count
       /\ log_base_ts_us' = base

\* The data lines written through the current handler.
RECURSIVE DataLines(_)
DataLines(fs) ==
    IF fs = <<>> THEN 0
    ELSE Len(SelectSeq(Head(fs), LAMBDA l : l.kind = "data")) + DataLines(Tail(fs))

InitTrace ==
    /\ logging = FALSE
    /\ files = <<>>
    /\ message_count = 0
    /\ log_base_ts_us = <<>>
    /\ log_ts_offset_us = <<>>
    /\ header_written = FALSE
    /\ mono = MonoStart
    /\ drv = 0
    /\ last_drv_ts = 0
    /\ mapped = <<>>

\* start_logging(filename): a new handler with its first file, the header in it.
start_logging ==
    /\ files' = << << HeaderLine >> >>
    /\ log_base_ts_us' = <<>>
    /\ log_ts_offset_us' = <<>>
    /\ message_count' = 0
    /\ header_written' = TRUE
    /\ logging' = TRUE
    /\ mapped' = <<>>
    /\ UNCHANGED <<mono, drv, last_drv_ts, notTraceVars>>

\* stop_logging(): the handler is closed and dropped.
stop_logging ==
    /\ logging
    /\ logging' = FALSE
    /\ files' = <<>>
    /\ log_base_ts_us' = <<>>
    /\ UNCHANGED <<message_count, log_ts_offset_us, header_written, mono, drv,
                   last_drv_ts, mapped, notTraceVars>>

\* Time passes on the host and on the interface.
TickMono ==
    /\ mono < MonoStart + MaxMonoTicks * MonoStep
    /\ mono' = mono + MonoStep
    /\ drv' = drv + MonoStep
    /\ UNCHANGED <<logging, files, message_count, log_base_ts_us,
                   log_ts_offset_us, header_written, last_drv_ts, mapped,
                   notTraceVars>>

\* process_message(msg, ts_us): a frame stamped by the driver now or one step
\* ago, never before the frame processed last.
process_message ==
    \E ts_us \in {drv, drv - MonoStep} :
        /\ ts_us >= last_drv_ts
        /\ last_drv_ts' = ts_us
        /\ log_ts_offset_us' = AnchoredOffset(log_ts_offset_us, ts_us)
        /\ mapped' = MappedAfter(log_ts_offset_us, ts_us)
        /\ IF logging
           THEN /\ DataLines(files) < MaxEntries
                /\ write_trc_entry(message_count + 1,
                                   LogTimestamp(log_ts_offset_us, ts_us), "Rx")
           ELSE UNCHANGED <<files, message_count, log_base_ts_us>>
        /\ UNCHANGED <<logging, header_written, mono, drv, notTraceVars>>

\* The message_received signal crosses from the reader thread to the GUI
\* thread through the event queue of the GUI thread, which delivers in the
\* order of posting. (EnqueuedFirst: the newest signal delivered first.)
EnqueuedFirst(q, f) == <<f>> \o q
Enqueued(q, f) == Append(q, f)

InitOrder ==
    /\ rx_queue = <<>>
    /\ arrived = 0
    /\ written_rx = <<>>

\* CANReader.run, lines 481-485: a frame read and emitted with its timestamp.
emit_frame ==
    /\ arrived < MaxArrivals
    /\ arrived' = arrived + 1
    /\ rx_queue' = Enqueued(rx_queue, [n |-> arrived + 1, ts_us |-> drv])
    /\ UNCHANGED <<written_rx, traceVars, notOrderVars>>

\* process_message(msg, ts_us) for the signal at the head of the queue.
deliver_frame ==
    /\ rx_queue # <<>>
    /\ LET f == Head(rx_queue)
       IN /\ last_drv_ts' = f.ts_us
          /\ log_ts_offset_us' = AnchoredOffset(log_ts_offset_us, f.ts_us)
          /\ mapped' = MappedAfter(log_ts_offset_us, f.ts_us)
          /\ IF logging
             THEN /\ DataLines(files) < MaxEntries
                  /\ write_trc_entry(message_count + 1,
                                     LogTimestamp(log_ts_offset_us, f.ts_us), "Rx")
                  /\ written_rx' =
                        Append(written_rx,
                               [n |-> f.n, file |-> Len(files'),
                                seq |-> files'[Len(files')][Len(files'[Len(files')])].seq])
             ELSE UNCHANGED <<files, message_count, log_base_ts_us, written_rx>>
    /\ rx_queue' = Tail(rx_queue)
    /\ UNCHANGED <<logging, header_written, mono, drv, arrived, notOrderVars>>

\* start_logging(filename) by the user, once.
begin_logging ==
    /\ ~logging /\ written_rx = <<>>
    /\ start_logging

\* _send_can_row(row) with a successful driver Write while logging: the Tx
\* entry is stamped with the host clock. Without logging, or on a failed
\* Write, it changes none of this state.
send_can_row ==
    /\ logging
    /\ DataLines(files) < MaxEntries
    /\ write_trc_entry(message_count + 1, mono, "Tx")
    /\ UNCHANGED <<logging, log_ts_offset_us, header_written, mono, drv,
                   last_drv_ts, mapped, notTraceVars>>

(***************************************************************************)
(* PCANViewClone: connecting, disconnecting and the queued reader signals   *)
(*                                                                         *)
(* The reader's signals reach the GUI thread through its event queue: here *)
(* `events` holds what was emitted and not handled yet, oldest first.      *)
(***************************************************************************)
\* The driver timestamps a queued frame may carry.
DriverStamps == {0, MonoStep}

CommentLine == [kind |-> "comment", seq |-> 0, off |-> 0, ts |-> 0, dir |-> "-"]

\* _log_comment_and_trace: the comment goes to the log file when one is open.
CommentLogged(fs) ==
    IF fs = <<>> THEN fs ELSE [fs EXCEPT ![Len(fs)] = Append(@, CommentLine)]

\* The first reader is the one InitReader describes, already started.
InitSession ==
    /\ reader = "alive"
    /\ gui = "idle"
    /\ is_connected = FALSE
    /\ stale = FALSE
    /\ handled = <<>>

\* toggle_connection() without a running reader: a new CANReader is started.
ToggleConnect ==
    /\ gui = "idle"
    /\ reader = "none"
    /\ reader' = "alive"
    /\ pc' = "loop"
    /\ running' = TRUE
    /\ connected' = FALSE
    /\ ever_connected' = FALSE
    /\ UNCHANGED <<channel_open, events, gui, is_connected, stale, handled,
                   traceVars, notSessionVars>>

\* toggle_connection() with a running reader, up to reader.wait(2000):
\* stop_logging() when logging, then reader.stop().
ToggleDisconnectStop ==
    /\ gui = "idle"
    /\ reader = "alive"
    /\ logging' = FALSE
    /\ files' = (IF logging THEN <<>> ELSE files)
    /\ log_base_ts_us' = (IF logging THEN <<>> ELSE log_base_ts_us)
    /\ running' = FALSE
    /\ gui' = "toggle_wait"
    /\ UNCHANGED <<pc, connected, ever_connected, channel_open, events,
                   message_count, log_ts_offset_us, header_written, mono, drv,
                   last_drv_ts, mapped, reader, is_connected, stale, handled,
                   notSessionVars>>

\* What becomes of the signals a reader emitted and the GUI thread has not
\* handled when the reader object is dropped: they stay queued, or go with it.
PendingAfterDrop == {events, <<>>}

\* Lines 1227-1237 and 1291, 1298-1304: the reader is dropped, the channel
\* uninitialized, the connection state and the offset cleared.
Disconnected ==
    /\ reader' = "none"
    /\ events' \in PendingAfterDrop
    /\ channel_open' = FALSE
    /\ is_connected' = FALSE
    /\ log_ts_offset_us' = <<>>
    /\ mapped' = <<>>
    /\ stale' = FALSE
    /\ gui' = "idle"

\* toggle_connection() after reader.wait(2000) returned: the thread has ended.
ToggleDisconnectDone ==
    /\ gui = "toggle_wait"
    /\ pc = "halted"
    /\ Disconnected
    /\ UNCHANGED <<pc, running, connected, ever_connected, logging, files,
                   message_count, log_base_ts_us, header_written, mono, drv,
                   last_drv_ts, handled, notSessionVars>>

toggle_connection == ToggleConnect \/ ToggleDisconnectStop \/ ToggleDisconnectDone

\* handle_disconnect() with a running reader, up to reader.wait(2000).
HandleDisconnectStop ==
    /\ gui = "idle"
    /\ reader = "alive"
    /\ running' = FALSE
    /\ gui' = "disconnect_wait"
    /\ UNCHANGED <<pc, connected, ever_connected, channel_open, events,
                   traceVars, reader, is_connected, stale, handled,
                   notSessionVars>>

\* handle_disconnect() from there, or all of it when there is no reader:
\* stop_logging() when logging, then as toggle_connection.
HandleDisconnectDone ==
    /\ \/ gui = "disconnect_wait" /\ pc = "halted"
       \/ gui = "idle" /\ reader = "none" /\ (is_connected \/ log_ts_offset_us # <<>>)
    /\ logging' = FALSE
    /\ files' = (IF logging THEN <<>> ELSE files)
    /\ log_base_ts_us' = (IF logging THEN <<>> ELSE log_base_ts_us)
    /\ Disconnected
    /\ UNCHANGED <<pc, running, connected, ever_connected, message_count,
                   header_written, mono, drv, last_drv_ts, handled,
                   notSessionVars>>

handle_disconnect == HandleDisconnectStop \/ HandleDisconnectDone

\* What writing a comment leaves of message_count: _log_comment_and_trace
\* does not touch it. (CountAfterCommentConsumed: a comment that takes the
\* next sequence number.)
CountAfterCommentConsumed(n) == n + 1
CountAfterComment(n) == n

\* The body of on_hardware_status_changed(connected), lines 1243-1262.
StatusChanged(now_connected) ==
    LET prev == is_connected
        change == (now_connected # prev)
        lost == ~now_connected /\ prev
    IN /\ is_connected' = now_connected
       /\ files' = (IF change THEN CommentLogged(files) ELSE files)
       /\ message_count' = (IF change /\ files # <<>>
                            THEN CountAfterComment(message_count)
                            ELSE message_count)
       /\ log_ts_offset_us' = (IF lost THEN <<>> ELSE log_ts_offset_us)
       /\ mapped' = (IF lost THEN <<>> ELSE mapped)
       /\ stale' = (IF lost THEN FALSE
                    ELSE stale \/ (now_connected /\ log_ts_offset_us # <<>>))

\* on_hardware_status_changed(connected) for the queued status signal.
on_hardware_status_changed ==
    /\ gui = "idle"
    /\ events # <<>>
    /\ Head(events) \in {"conn_true", "conn_false"}
    /\ events' = Tail(events)
    /\ StatusChanged(Head(events) = "conn_true")
    /\ UNCHANGED <<pc, running, connected, ever_connected, channel_open,
                   logging, log_base_ts_us, header_written,
                   mono, drv, last_drv_ts, reader, gui, handled,
                   notSessionVars>>

\* The comment lines written through the current handler.
RECURSIVE CommentLines(_)
CommentLines(fs) ==
    IF fs = <<>> THEN 0
    ELSE Len(SelectSeq(Head(fs), LAMBDA l : l.kind = "comment"))
            + CommentLines(Tail(fs))

\* ask_log_filename(): the Start button, enabled while not logging, starts
\* logging when the hardware is connected.
ask_log_filename ==
    /\ is_connected /\ ~logging
    /\ start_logging

\* Time passes on the host and on the interface, while comments are written.
TickComment ==
    /\ mono < MonoStart + MaxCommentTicks * MonoStep
    /\ TickMono

\* on_hardware_status_changed(connected) for a status signal of either value,
\* while frames are received and sent.
hardware_status_signal ==
    /\ CommentLines(files) < MaxComments
    /\ \E now_connected \in BOOLEAN : StatusChanged(now_connected)
    /\ UNCHANGED <<readerVars, logging, log_base_ts_us, header_written,
                   mono, drv, last_drv_ts, reader, gui, handled,
                   notSessionVars>>

\* on_reader_error(msg) for the queued diagnostic: the status bar only.
on_reader_error ==
    /\ gui = "idle"
    /\ events # <<>>
    /\ Head(events) = "diag"
    /\ events' = Tail(events)
    /\ UNCHANGED <<pc, running, connected, ever_connected, channel_open,
                   traceVars, sessionVars, notSessionVars>>

\* process_message(msg, ts_us) for the queued frame signal.
process_queued_message ==
    /\ gui = "idle"
    /\ events # <<>>
    /\ Head(events) = "frame"
    /\ events' = Tail(events)
    /\ \E ts_us \in DriverStamps :
          /\ last_drv_ts' = ts_us
          /\ log_ts_offset_us' = AnchoredOffset(log_ts_offset_us, ts_us)
          /\ mapped' = MappedAfter(log_ts_offset_us, ts_us)
          /\ IF logging
             THEN /\ DataLines(files) < MaxEntries
                  /\ write_trc_entry(message_count + 1,
                                     LogTimestamp(log_ts_offset_us, ts_us), "Rx")
             ELSE UNCHANGED <<files, message_count, log_base_ts_us>>
    /\ stale' = (IF log_ts_offset_us = <<>> THEN FALSE ELSE stale)
    /\ handled' = << [anchored |-> (log_ts_offset_us = <<>>), stale |-> stale'] >>
    /\ UNCHANGED <<pc, running, connected, ever_connected, channel_open,
                   logging, header_written, mono, drv, reader, gui,
                   is_connected, notSessionVars>>

(***************************************************************************)
(* CSVLogger and MCUCSVLogger: the decoded-signal loggers                  *)
(***************************************************************************)
\* 0x0726, the selector frame of MCUCSVLogger.handle_message.
SelectorId == 1830

\* PCANViewClone.mcu_variant_map: selector byte -> (variant name, DBC file).
mcu_variant_map ==
    (5 :> [name |-> "GTAKE", dbc |-> "GTAKE_MCU.dbc"]) @@
    (1 :> [name |-> "GTAKE", dbc |-> "GTAKE_MCU.dbc"]) @@
    (3 :> [name |-> "Pegasus", dbc |-> "Pegasus_MCU_BMS.dbc"])

\* What cantools.database.load_file gives for each DBC file: its messages
\* sorted by name, each with its identifier, its length and its signals. One
\* of the MCU databases describes the selector frame, the other does not.
DbcFiles ==
    ("Marvel_3W_all_variant.dbc" :>
        << [id |-> 256, length |-> 2, signals |-> <<"Volt">>] >>) @@
    ("GTAKE_MCU.dbc" :>
        << [id |-> 256, length |-> 2, signals |-> <<"Speed">>],
           [id |-> SelectorId, length |-> 1, signals |-> <<"Variant">>] >>) @@
    ("Pegasus_MCU_BMS.dbc" :>
        << [id |-> 256, length |-> 2, signals |-> <<"Soc">>] >>)

\* The frames that reach the loggers: selector frames, empty or with a first
\* byte that is or is not in the map, and frames of an identifier every
\* database describes, of every length drawn.
SelectorBytes == {5, 3, 153}
DataByte == 5
LoggerFrame(i, n, b) ==
    [ID |-> i, LEN |-> n,
     DATA |-> [k \in 1..8 |-> IF k <= n THEN b ELSE StaleByte]]
LoggerFrames ==
    { LoggerFrame(SelectorId, n, b) : n \in 0..1, b \in SelectorBytes }
        \cup { LoggerFrame(256, n, DataByte) : n \in 0..MaxLen }

\* Lines 87-95 and 347-355: the columns, the units row, the cells at 0.
RECURSIVE SignalsOf(_)
SignalsOf(db) == IF db = <<>> THEN <<>> ELSE Head(db).signals \o SignalsOf(Tail(db))
SignalList(db) == <<"Time">> \o SignalsOf(db)
UnitsList(db) == <<"s">> \o [k \in 1..Len(SignalsOf(db)) |-> ""]
ZeroValues(db) == [k \in 1..Len(SignalList(db)) |-> 0]
\* (HeaderRowsNamesOnly: a file opened without the units row.)
HeaderRowsNamesOnly(db) == << [kind |-> "names", cells |-> SignalList(db)] >>
HeaderRows(db) == << [kind |-> "names", cells |-> SignalList(db)],
                     [kind |-> "units", cells |-> UnitsList(db)] >>

\* Lines 160-166 and 295-304: bytes(b) for min(8, length or 8) bytes of DATA.
Payload(msg) ==
    [k \in 1..(IF msg.LEN = 0 THEN 8 ELSE IF msg.LEN > 8 THEN 8 ELSE msg.LEN)
        |-> msg.DATA[k] % 256]

\* db.decode_message(arbitration_id, payload): it raises for an identifier the
\* database does not describe and for a payload shorter than the message;
\* otherwise every signal of the message gets a value, here the first byte.
Describes(db, id) == \E k \in DOMAIN db : db[k].id = id
MessageOf(db, id) == db[CHOOSE k \in DOMAIN db : db[k].id = id]
Decodes(db, msg) ==
    /\ Describes(db, msg.ID)
    /\ Len(Payload(msg)) >= MessageOf(db, msg.ID).length
Decoded(db, msg) ==
    LET names == MessageOf(db, msg.ID).signals
    IN [name \in {names[k] : k \in DOMAIN names} |-> Payload(msg)[1]]

\* Lines 173-176 and 314-317: latest_values after a decode.
\* (ValuesAfterFailureCleared: a failed decode that zeroes the signal cells;
\* ValuesAfterDecodeFirstWins: a decoded value kept out of a cell that holds
\* one already.)
ValuesAfterDecodeFirstWins(values, signal_list, decoded) ==
    [k \in DOMAIN values |->
        IF signal_list[k] \in DOMAIN decoded /\ values[k] = 0
        THEN decoded[signal_list[k]]
        ELSE values[k]]
ValuesAfterDecode(values, signal_list, decoded) ==
    [k \in DOMAIN values |->
        IF signal_list[k] \in DOMAIN decoded THEN decoded[signal_list[k]]
        ELSE values[k]]
ValuesAfterFailureCleared(values) == [k \in DOMAIN values |-> IF k = 1 THEN values[k] ELSE 0]
ValuesAfterFailure(values) == values

\* round((ts_us - base) / 1_000_000.0, 6), in us.
RelTime(ts_us, base_ts) == ts_us - base_ts

\* CSVLogger(...) as constructed by start_logging, with the database loaded.
NewCSVLogger ==
    LET db == DbcFiles["Marvel_3W_all_variant.dbc"]
    IN [running |-> FALSE, db |-> db, signal_list |-> SignalList(db),
        latest_values |-> ZeroValues(db), base_ts |-> <<>>, file |-> <<>>]

\* CSVLogger.start(): the file opened, both header rows written.
CSVStarted(L) ==
    IF L.running THEN L
    ELSE [L EXCEPT !.file = HeaderRows(L.db), !.running = TRUE]

\* CSVLogger.stop(): the loop ended, the file closed.
CSVStopped(L) == [L EXCEPT !.running = FALSE]

\* CSVLogger.handle_message(msg, ts_us).
CSVHandled(L, msg, ts_us) ==
    LET base == IF L.base_ts = <<>> THEN <<ts_us>> ELSE L.base_ts
        timed == [L.latest_values EXCEPT ![1] = RelTime(ts_us, base[1])]
    IN [L EXCEPT
          !.base_ts = base,
          !.latest_values =
              IF Decodes(L.db, msg)
              THEN ValuesAfterDecode(timed, L.signal_list, Decoded(L.db, msg))
              ELSE ValuesAfterFailure(timed)]

\* MCUCSVLogger(...) as constructed by start_logging.
NewMCULogger ==
    [running |-> FALSE, activated |-> FALSE, db |-> <<>>,
     signal_list |-> <<>>, latest_values |-> <<>>, base_ts |-> <<>>,
     selected_variant |-> <<>>, update_counter |-> 0,
     last_written_counter |-> 0, file |-> <<>>]

\* MCUCSVLogger.start() and stop().
MCUStarted(L) == [L EXCEPT !.running = TRUE]
MCUStopped(L) ==
    [L EXCEPT !.running = FALSE, !.activated = FALSE, !.selected_variant = <<>>]

\* How _init_variant can end: with the file open, or at one of its returns.
VariantOutcomes == {"ok", "no_dbc", "load_failed", "open_failed"}

\* _init_variant(selector_byte).
init_variant(L, selector_byte, outcome) ==
    IF L.activated \/ selector_byte \notin DOMAIN mcu_variant_map
       \/ outcome \in {"no_dbc", "load_failed"}
    THEN L
    ELSE LET db == DbcFiles[mcu_variant_map[selector_byte].dbc]
             loaded == [L EXCEPT !.db = <<db>>,
                                 !.signal_list = SignalList(db),
                                 !.latest_values = ZeroValues(db),
                                 !.base_ts = <<>>,
                                 !.update_counter = 0,
                                 !.last_written_counter = 0]
         IN IF outcome = "open_failed" THEN loaded
            ELSE [loaded EXCEPT !.file = HeaderRows(db),
                                !.activated = TRUE,
                                !.selected_variant = <<selector_byte>>]

\* Lines 275-283: the selector test of handle_message.
SelectsVariant(L, msg) ==
    /\ ~L.activated
    /\ msg.ID = SelectorId
    /\ msg.LEN > 0
    /\ (msg.DATA[1] % 256) \in DOMAIN mcu_variant_map

\* MCUCSVLogger.handle_message(msg, ts_us).
MCUHandled(L, msg, ts_us, outcome) ==
    IF ~L.running THEN L
    ELSE LET L1 == IF SelectsVariant(L, msg)
                   THEN init_variant(L, msg.DATA[1] % 256, outcome)
                   ELSE L
         IN IF ~L1.activated \/ L1.db = <<>> THEN L1
            ELSE LET base == IF L1.base_ts = <<>> THEN <<ts_us>> ELSE L1.base_ts
                     timed == [L1.latest_values EXCEPT
                                  ![1] = RelTime(ts_us, base[1])]
                 IN [L1 EXCEPT
                       !.base_ts = base,
                       !.latest_values =
                           IF Decodes(L1.db[1], msg)
                           THEN ValuesAfterDecode(timed, L1.signal_list,
                                                  Decoded(L1.db[1], msg))
                           ELSE ValuesAfterFailure(timed),
                       !.update_counter = @ + 1]

\* Lines 383-386: whether the write loop of MCUCSVLogger has a row to write.
HasUpdate(L) == L.update_counter > L.last_written_counter

SnapshotRow(L) == [kind |-> "row", cells |-> L.latest_values]
RowsOf(file) == SelectSeq(file, LAMBDA r : r.kind = "row")

\* The rows the two write loops have put into their files so far.
RowsWritten ==
    Len(RowsOf(csv_logger.file)) + Len(RowsOf(mcu_logger.file))

InitLogger ==
    /\ csv_logger = NewCSVLogger
    /\ mcu_logger = NewMCULogger
    /\ fed = <<>>

\* Lines 1613-1641 of start_logging: both loggers created and started, the
\* reader's frame signal connected to them.
start_loggers ==
    /\ ~csv_logger.running /\ ~mcu_logger.running
    /\ csv_logger' = CSVStarted(NewCSVLogger)
    /\ mcu_logger' = MCUStarted(NewMCULogger)
    /\ fed' = <<>>
    /\ UNCHANGED <<traceVars, notLoggerVars>>

\* Lines 1675-1697 of stop_logging: both loggers disconnected and stopped.
stop_loggers ==
    /\ csv_logger.running
    /\ csv_logger' = CSVStopped(csv_logger)
    /\ mcu_logger' = MCUStopped(mcu_logger)
    /\ UNCHANGED <<fed, traceVars, notLoggerVars>>

\* CANReader.run emits message_received(msg, ts_us) with the driver's count;
\* both handle_message slots run on it, in the order they were connected.
message_received ==
    /\ csv_logger.running
    /\ mcu_logger.update_counter < MaxUpdates
    /\ \E msg \in LoggerFrames :
          /\ csv_logger' = CSVHandled(csv_logger, msg, drv)
          /\ mcu_logger' = MCUHandled(mcu_logger, msg, drv, "ok")
          /\ fed' = << [msg |-> msg,
                       n |-> IF fed = <<>> THEN 0 ELSE 1 - fed[1].n] >>
    /\ UNCHANGED <<traceVars, notLoggerVars>>

\* The frames of the identifier the Marvel database describes, with two
\* different values of the signal byte and every length drawn.
CsvFrames ==
    { LoggerFrame(256, n, b) : n \in 0..MaxLen, b \in {DataByte, DataByte + 1} }

\* message_received(msg, ts_us) for such a frame: both slots run on it.
csv_message_received ==
    /\ csv_logger.running
    /\ \E msg \in CsvFrames :
          /\ csv_logger' = CSVHandled(csv_logger, msg, drv)
          /\ mcu_logger' = MCUHandled(mcu_logger, msg, drv, "ok")
          /\ fed' = << [msg |-> msg,
                       n |-> IF fed = <<>> THEN 0 ELSE 1 - fed[1].n] >>
    /\ UNCHANGED <<traceVars, notLoggerVars>>

\* The driver's count as time passes on the interface.
DriverTick ==
    /\ drv < MaxDriverTicks * MonoStep
    /\ drv' = drv + MonoStep
    /\ UNCHANGED <<logging, files, message_count, log_base_ts_us,
                   log_ts_offset_us, header_written, mono, last_drv_ts, mapped,
                   loggerVars, notLoggerVars>>

\* CANReader.run loses the hardware and initializes it again, the loggers
\* staying connected, and the driver counts from its origin again.
hardware_reconnect ==
    /\ drv > 0
    /\ drv' = 0
    /\ UNCHANGED <<logging, files, message_count, log_base_ts_us,
                   log_ts_offset_us, header_written, mono, last_drv_ts, mapped,
                   loggerVars, notLoggerVars>>

\* One turn of CSVLogger._write_loop that writes.
csv_write_loop ==
    /\ csv_logger.running
    /\ RowsWritten < MaxRows
    /\ csv_logger' = [csv_logger EXCEPT !.file = Append(@, SnapshotRow(csv_logger))]
    /\ UNCHANGED <<mcu_logger, fed, traceVars, notLoggerVars>>

\* One turn of MCUCSVLogger._write_loop that writes.
mcu_write_loop ==
    /\ mcu_logger.running
    /\ mcu_logger.activated
    /\ HasUpdate(mcu_logger)
    /\ RowsWritten < MaxRows
    /\ mcu_logger' = [mcu_logger EXCEPT
                         !.file = Append(@, SnapshotRow(mcu_logger)),
                         !.last_written_counter = mcu_logger.update_counter]
    /\ UNCHANGED <<csv_logger, fed, traceVars, notLoggerVars>>

(***************************************************************************)
(* stop() of a logger and its write loop                                   *)
(*                                                                         *)
(* The write loop runs on a thread of its own; stop() runs on the GUI      *)
(* thread. The loop is cut at its test of _running, between the snapshot   *)
(* and writerow, and between writerow and flush; stop() at each statement. *)
(* A row goes to the buffer of the file object with writerow and to the    *)
(* file with flush or close.                                               *)
(***************************************************************************)
Loggers == {"csv", "mcu"}
LoggerOf(l) == IF l = "csv" THEN csv_logger ELSE mcu_logger

\* writerow and flush on a file object: both raise ValueError once it is
\* closed, and the loop swallows it. (BufferedRowEvenClosed: a writerow that
\* reaches a closed file.)
BufferedRowEvenClosed(buf, is_closed, row) == Append(buf, row)
BufferedRow(buf, is_closed, row) == IF is_closed THEN buf ELSE Append(buf, row)
Flushed(file, buf) == file \o buf

\* Line 397: self._last_written_counter = current_counter, the counter read
\* under the lock with the row. (WrittenCounterReread: the counter read again
\* after the write.)
WrittenCounterReread(current_counter, L) == L.update_counter
WrittenCounter(current_counter, L) == current_counter

\* Where a writer thread is, with the snapshot it took and the counter it read.
Thread(at, row, counter) == [at |-> at, row |-> row, counter |-> counter]
At(at) == Thread(at, <<>>, 0)

InitStop ==
    /\ writer = [l \in Loggers |-> At("none")]
    /\ stopping = [l \in Loggers |-> "idle"]
    /\ closed = [l \in Loggers |-> FALSE]
    /\ pending = [l \in Loggers |-> <<>>]

\* start() of both loggers as start_logging calls them: the writer threads
\* started.
start_logger_threads ==
    /\ ~csv_logger.running /\ ~mcu_logger.running
    /\ \A l \in Loggers : writer[l].at \in {"none", "exited"}
    /\ csv_logger' = CSVStarted(NewCSVLogger)
    /\ mcu_logger' = MCUStarted(NewMCULogger)
    /\ fed' = <<>>
    /\ writer' = [l \in Loggers |-> At("test")]
    /\ stopping' = [l \in Loggers |-> "idle"]
    /\ closed' = [l \in Loggers |-> FALSE]
    /\ pending' = [l \in Loggers |-> <<>>]
    /\ UNCHANGED <<traceVars, notLoggerStopVars>>

\* The write loop at `while self._running` and the tests that follow it, up
\* to the snapshot taken under the lock.
loop_test ==
    \E l \in Loggers :
        /\ writer[l].at = "test"
        /\ IF ~LoggerOf(l).running
           THEN writer' = [writer EXCEPT ![l] = At("exited")]
           ELSE /\ l = "mcu" => mcu_logger.activated /\ HasUpdate(mcu_logger)
                /\ RowsWritten + Len(pending["csv"]) + Len(pending["mcu"]) < MaxRows
                /\ writer' = [writer EXCEPT ![l] =
                                 Thread("writerow", << SnapshotRow(LoggerOf(l)) >>,
                                        IF l = "mcu" THEN mcu_logger.update_counter
                                        ELSE 0)]
        /\ UNCHANGED <<stopping, closed, pending, loggerVars, traceVars,
                       notLoggerStopVars>>

\* self._writer.writerow(row) inside the try.
loop_writerow ==
    \E l \in Loggers :
        /\ writer[l].at = "writerow"
        /\ pending' = [pending EXCEPT
                          ![l] = BufferedRow(@, closed[l], writer[l].row[1])]
        /\ writer' = [writer EXCEPT
                         ![l] = IF closed[l] THEN At("test")
                                ELSE Thread("flush", <<>>, writer[l].counter)]
        /\ IF l = "mcu"
           THEN /\ mcu_logger' = [mcu_logger EXCEPT
                                     !.last_written_counter =
                                         IF closed[l]
                                         THEN WrittenCounter(writer[l].counter,
                                                             mcu_logger)
                                         ELSE @]
                /\ UNCHANGED <<csv_logger, fed>>
           ELSE UNCHANGED loggerVars
        /\ UNCHANGED <<stopping, closed, traceVars, notLoggerStopVars>>

\* self._f.flush() inside the try, and what follows it in the loop body.
loop_flush ==
    \E l \in Loggers :
        /\ writer[l].at = "flush"
        /\ writer' = [writer EXCEPT ![l] = At("test")]
        /\ LET file == IF closed[l] THEN LoggerOf(l).file
                       ELSE Flushed(LoggerOf(l).file, pending[l])
           IN IF l = "csv"
              THEN /\ csv_logger' = [csv_logger EXCEPT !.file = file]
                   /\ UNCHANGED <<mcu_logger, fed>>
              ELSE /\ mcu_logger' = [mcu_logger EXCEPT
                                       !.file = file,
                                       !.last_written_counter =
                                           WrittenCounter(writer[l].counter,
                                                          mcu_logger)]
                   /\ UNCHANGED <<csv_logger, fed>>
        /\ pending' = [pending EXCEPT ![l] = IF closed[l] THEN @ ELSE <<>>]
        /\ UNCHANGED <<stopping, closed, traceVars, notLoggerStopVars>>

\* stop(): self._running = False.
stop_clear ==
    \E l \in Loggers :
        /\ stopping[l] = "idle"
        /\ LoggerOf(l).running
        /\ l = "mcu" => stopping["csv"] = "returned"
        /\ stopping' = [stopping EXCEPT ![l] = "join"]
        /\ IF l = "csv"
           THEN /\ csv_logger' = [csv_logger EXCEPT !.running = FALSE]
                /\ UNCHANGED <<mcu_logger, fed>>
           ELSE /\ mcu_logger' = [mcu_logger EXCEPT !.running = FALSE]
                /\ UNCHANGED <<csv_logger, fed>>
        /\ UNCHANGED <<writer, closed, pending, traceVars, notLoggerStopVars>>

\* stop(): self._writer_thread.join(timeout=1.0) returns, the thread ended.
stop_joined ==
    \E l \in Loggers :
        /\ stopping[l] = "join"
        /\ writer[l].at = "exited"
        /\ stopping' = [stopping EXCEPT ![l] = "close"]
        /\ UNCHANGED <<writer, closed, pending, loggerVars, traceVars,
                       notLoggerStopVars>>

\* stop(): the join gives up after its second, the thread still running.
stop_join_timeout ==
    \E l \in Loggers :
        /\ stopping[l] = "join"
        /\ writer[l].at # "exited"
        /\ stopping' = [stopping EXCEPT ![l] = "close"]
        /\ UNCHANGED <<writer, closed, pending, loggerVars, traceVars,
                       notLoggerStopVars>>

\* stop(): flush and close of the file when there is one, then the flags.
stop_close ==
    \E l \in Loggers :
        /\ stopping[l] = "close"
        /\ stopping' = [stopping EXCEPT ![l] = "returned"]
        /\ closed' = [closed EXCEPT ![l] = LoggerOf(l).file # <<>>]
        /\ pending' = [pending EXCEPT ![l] = <<>>]
        /\ IF l = "csv"
           THEN /\ csv_logger' = CSVStopped(
                      [csv_logger EXCEPT !.file = Flushed(@, pending[l])])
                /\ UNCHANGED <<mcu_logger, fed>>
           ELSE /\ mcu_logger' = MCUStopped(
                      [mcu_logger EXCEPT !.file = Flushed(@, pending[l])])
                /\ UNCHANGED <<csv_logger, fed>>
        /\ UNCHANGED <<writer, traceVars, notLoggerStopVars>>

(***************************************************************************)
(* handle_message of MCUCSVLogger and its write loop                       *)
(*                                                                         *)
(* handle_message runs on the GUI thread and takes the lock twice: for the *)
(* Time cell, and for the decoded cells with _update_counter. The write    *)
(* loop compares the counters without the lock, waits for its tick, takes  *)
(* the row and the counter under the lock, writes, and stores the counter. *)
(***************************************************************************)
notLoggerHandlerVars ==
    <<readerVars, mirrorVars, sessionVars, threadVars, orderVars, stopVars,
      driverVars, faultVars>>

InitHandler == handling = <<>>

\* Lines 257-310 of handle_message: the selector test, the base timestamp and
\* the Time cell, set under the lock.
MCUTimed(L, msg, ts_us, outcome) ==
    IF ~L.running THEN L
    ELSE LET L1 == IF SelectsVariant(L, msg)
                   THEN init_variant(L, msg.DATA[1] % 256, outcome)
                   ELSE L
         IN IF ~L1.activated \/ L1.db = <<>> THEN L1
            ELSE LET base == IF L1.base_ts = <<>> THEN <<ts_us>> ELSE L1.base_ts
                 IN [L1 EXCEPT
                       !.base_ts = base,
                       !.latest_values = [@ EXCEPT ![1] = RelTime(ts_us, base[1])]]

\* Lines 312-322 of handle_message: the decoded cells and the counter, set
\* under the lock together; the counter alone when the decode raises.
MCUValued(L, msg) ==
    [L EXCEPT
       !.latest_values =
           IF Decodes(L.db[1], msg)
           THEN ValuesAfterDecode(@, L.signal_list, Decoded(L.db[1], msg))
           ELSE ValuesAfterFailure(@),
       !.update_counter = @ + 1]

\* The frames that reach a lazy logger here: a selector frame of a variant in
\* the map, and frames its database describes, too short to decode or long
\* enough, with two values of the signal byte.
LazyFrames ==
    { LoggerFrame(SelectorId, 1, 5) }
        \cup { LoggerFrame(256, n, b) : n \in 1..2, b \in {DataByte, DataByte + 1} }

\* message_received(msg, ts_us): the CSVLogger slot, then handle_message of
\* MCUCSVLogger up to the end of its first locked block.
handle_message_time ==
    /\ mcu_logger.running
    /\ handling = <<>>
    /\ mcu_logger.update_counter < MaxUpdates
    /\ \E msg \in LazyFrames :
          LET L1 == MCUTimed(mcu_logger, msg, drv, "ok")
          IN /\ csv_logger' = CSVHandled(csv_logger, msg, drv)
             /\ mcu_logger' = L1
             /\ fed' = << [msg |-> msg,
                          n |-> IF fed = <<>> THEN 0 ELSE 1 - fed[1].n] >>
             /\ handling' = IF L1.activated /\ L1.db # <<>> THEN <<msg>> ELSE <<>>
    /\ UNCHANGED <<traceVars, notLoggerHandlerVars>>

\* handle_message of MCUCSVLogger, its second locked block.
handle_message_values ==
    /\ handling # <<>>
    /\ mcu_logger' = MCUValued(mcu_logger, handling[1])
    /\ handling' = <<>>
    /\ UNCHANGED <<csv_logger, fed, traceVars, notLoggerHandlerVars>>

\* Lines 376-386 of _write_loop: the tests of _running and _activated and the
\* comparison of the two counters, read without the lock. With nothing to
\* write the loop sleeps and tests again.
loop_compare ==
    /\ writer["mcu"].at = "test"
    /\ mcu_logger.running
    /\ mcu_logger.activated
    /\ HasUpdate(mcu_logger)
    /\ writer' = [writer EXCEPT !["mcu"] = At("tick")]
    /\ UNCHANGED <<stopping, closed, pending, loggerVars, traceVars,
                   notLoggerStopVars>>

\* Lines 387-388 and 399: now < next_tick, the loop sleeps and starts over.
loop_not_due ==
    /\ writer["mcu"].at = "tick"
    /\ writer' = [writer EXCEPT !["mcu"] = At("test")]
    /\ UNCHANGED <<stopping, closed, pending, loggerVars, traceVars,
                   notLoggerStopVars>>

\* Lines 388-391: now >= next_tick, the row and the counter are read under
\* the lock.
loop_snapshot ==
    /\ writer["mcu"].at = "tick"
    /\ writer' = [writer EXCEPT !["mcu"] =
                     Thread("writerow", << SnapshotRow(mcu_logger) >>,
                            mcu_logger.update_counter)]
    /\ UNCHANGED <<stopping, closed, pending, loggerVars, traceVars,
                   notLoggerStopVars>>

(***************************************************************************)
(* Faults of the file system                                               *)
(*                                                                         *)
(* `faults` remembers which sinks met a fault since logging started:       *)
(* "rotation" for a successor trace file that could not be created, "csv"  *)
(* and "mcu" for a row the write loop could not write.                     *)
(***************************************************************************)
\* write_trc_entry(msg_num, ts_us, msg, tx) when the file is due for rotation
\* and start_new_file raises: lines 1748-1753 swallow the exception, rotated
\* stays False, and the line goes to log_handler.write as usual. The handler
\* is left with the file it had: the line reaches it (accepted) or the write
\* raises out of write_trc_entry, after the caller counted the message.
write_trc_entry_rotation_fault(msg_num, ts_us, direction, accepted) ==
    LET base == IF log_base_ts_us = <<>> THEN <<ts_us>> ELSE log_base_ts_us
        line == [kind |-> "data", seq |-> msg_num,
                 off |-> Tenths(ts_us - base[1]), ts |-> ts_us,
                 dir |-> direction]
    IN /\ MustRotate(files)
       /\ msg_num <= MaxEntries
       /\ files' = IF accepted
                   THEN [files EXCEPT ![Len(files)] = Append(@, line)]
                   ELSE files
       /\ message_count' = msg_num
       /\ log_base_ts_us' = base
       /\ faults' = faults \cup {"rotation"}

\* process_message(msg, ts_us) while logging, the rotation failing.
process_message_rotation_fault ==
    \E ts_us \in {drv, drv - MonoStep}, accepted \in BOOLEAN :
        /\ logging
        /\ ts_us >= last_drv_ts
        /\ DataLines(files) < MaxEntries
        /\ last_drv_ts' = ts_us
        /\ log_ts_offset_us' = AnchoredOffset(log_ts_offset_us, ts_us)
        /\ mapped' = MappedAfter(log_ts_offset_us, ts_us)
        /\ write_trc_entry_rotation_fault(
               message_count + 1, LogTimestamp(log_ts_offset_us, ts_us), "Rx",
               accepted)
        /\ UNCHANGED <<logging, header_written, mono, drv, notTraceFaultVars>>

\* _send_can_row(row) while logging, the rotation failing.
send_can_row_rotation_fault ==
    \E accepted \in BOOLEAN :
        /\ logging
        /\ DataLines(files) < MaxEntries
        /\ write_trc_entry_rotation_fault(message_count + 1, mono, "Tx", accepted)
        /\ UNCHANGED <<logging, log_ts_offset_us, header_written, mono, drv,
                       last_drv_ts, mapped, notTraceFaultVars>>

\* One turn of CSVLogger._write_loop in which writerow or flush raises: lines
\* 192-193 swallow the exception, the row is lost and the loop goes on.
csv_write_loop_fault ==
    /\ csv_logger.running
    /\ faults' = faults \cup {"csv"}
    /\ faults' # faults
    /\ UNCHANGED <<csv_logger, mcu_logger, fed, traceVars, notLoggerFaultVars>>

\* One turn of MCUCSVLogger._write_loop in which writerow or flush raises:
\* lines 394-395 swallow the exception, line 396 counts the row as written.
mcu_write_loop_fault ==
    /\ mcu_logger.running
    /\ mcu_logger.activated
    /\ HasUpdate(mcu_logger)
    /\ mcu_logger' = [mcu_logger EXCEPT
                         !.last_written_counter = mcu_logger.update_counter]
    /\ faults' = faults \cup {"mcu"}
    /\ UNCHANGED <<csv_logger, fed, traceVars, notLoggerFaultVars>>

(***************************************************************************)
(* The driver handle used by two threads                                   *)
(*                                                                         *)
(* PCANViewClone.pcan is the PCANBasic object the CANReader was given; the *)
(* reader thread calls it in run(), the GUI thread in _send_can_row. The   *)
(* Write of the GUI thread is cut into its call and its return; a driver   *)
(* call of the reader thread is one step.                                  *)
(***************************************************************************)
InitDriver == tx_call = <<>>
InitFaults == faults = {}

\* _send_can_row, lines 1432-1451: self.pcan.Write(CAN_CHANNEL, msg) entered.
write_call ==
    /\ tx_call = <<>>
    /\ tx_call' = << "Write" >>
    /\ UNCHANGED notDriverVars

\* The Write returns to _send_can_row, whatever its result.
write_return ==
    /\ tx_call # <<>>
    /\ tx_call' = <<>>
    /\ UNCHANGED notDriverVars

(***************************************************************************)
(* Specifications                                                          *)
(***************************************************************************)
\* Every component as constructed.
Init ==
    /\ InitReader /\ InitMirror /\ InitThreads
    /\ InitTrace /\ InitSession /\ InitLogger /\ InitOrder /\ InitStop
    /\ InitDriver /\ InitFaults /\ InitHandler

\* As Init, with one rule already added to the engine.
InitFixedRule ==
    /\ InitReader /\ InitTransform /\ InitThreads
    /\ InitTrace /\ InitSession /\ InitLogger /\ InitOrder /\ InitStop
    /\ InitDriver /\ InitFaults /\ InitHandler

NextReader == Stop \/ LoopHead \/ Initialize \/ GetStatus \/ Read \/ Halt

SpecReader == Init /\ [][NextReader]_vars

\* The reader as a started QThread: the scheduler keeps running it and every
\* driver call returns, so no step of run() that can be taken waits forever.
SpecReaderFair ==
    /\ SpecReader
    /\ WF_vars(LoopHead) /\ WF_vars(Initialize) /\ WF_vars(GetStatus)
    /\ WF_vars(Read) /\ WF_vars(Halt)

NextMirror ==
    add_rule \/ remove_rule \/ enable_rule \/ set_on_tx \/ Tick \/ handle_rx

SpecMirror == Init /\ [][NextMirror]_vars

\* The engine with handle_rx on one thread and the display and the rule
\* editor on another.
NextMirrorThreads ==
    \/ handle_rx_lookup \/ handle_rx_transmit
    \/ add_rule_concurrent \/ remove_rule_concurrent \/ enable_rule_concurrent
    \/ get_rx_bytes_concurrent \/ Tick

SpecMirrorThreads == Init /\ [][NextMirrorThreads]_vars

NextTransform == handle_rx_fixed_rule

SpecTransform == InitFixedRule /\ [][NextTransform]_vars

NextTrace ==
    start_logging \/ stop_logging \/ TickMono \/ process_message \/ send_can_row

SpecTrace == Init /\ [][NextTrace]_vars

\* The trace writer with the hardware coming and going while it logs.
NextComment ==
    \/ ask_log_filename \/ stop_logging \/ TickComment \/ process_message
    \/ send_can_row \/ hardware_status_signal

SpecComment == Init /\ [][NextComment]_vars

\* One logging session with the frames queued between the two threads.
NextOrder ==
    \/ begin_logging \/ stop_logging \/ TickMono
    \/ emit_frame \/ deliver_frame \/ send_can_row

SpecOrder == Init /\ [][NextOrder]_vars

\* The reader thread and the GUI thread: stop() is called by the GUI handlers.
NextSession ==
    \/ LoopHead \/ Initialize \/ GetStatus \/ Read \/ Halt
    \/ toggle_connection \/ handle_disconnect
    \/ on_hardware_status_changed \/ on_reader_error \/ process_queued_message

SpecSession == Init /\ [][NextSession]_vars

\* The two decoded-signal loggers of one or more logging sessions, fed by the
\* reader while the files they need can be read and created.
NextLogger ==
    \/ start_loggers \/ stop_loggers \/ message_received
    \/ DriverTick \/ hardware_reconnect
    \/ csv_write_loop \/ mcu_write_loop

SpecLogger == Init /\ [][NextLogger]_vars

\* The two loggers while the hardware stays connected: the driver's count
\* only grows.
NextLoggerSession ==
    \/ start_loggers \/ stop_loggers \/ message_received \/ DriverTick
    \/ csv_write_loop \/ mcu_write_loop

SpecLoggerSession == Init /\ [][NextLoggerSession]_vars

\* The CSVLogger fed with changing values of one signal.
NextCsv ==
    \/ start_loggers \/ stop_loggers \/ csv_message_received \/ DriverTick
    \/ csv_write_loop

SpecCsv == Init /\ [][NextCsv]_vars

\* The loggers with their writer threads and stop() statement by statement.
NextStop ==
    \/ start_logger_threads \/ message_received
    \/ loop_test \/ loop_writerow \/ loop_flush
    \/ stop_clear \/ stop_joined \/ stop_join_timeout \/ stop_close

SpecStop == Init /\ [][NextStop]_vars

\* An MCUCSVLogger that is started and not stopped: frames arrive while its
\* write loop runs.
NextLazy ==
    \/ start_logger_threads
    \/ handle_message_time \/ handle_message_values
    \/ loop_compare \/ loop_not_due \/ loop_snapshot
    \/ loop_writerow \/ loop_flush

\* The GUI thread finishes the handle_message call it is in and the writer
\* thread keeps running; the wall clock reaches next_tick, so the loop that
\* keeps testing for it takes its snapshot.
SpecLazyFair ==
    /\ Init /\ [][NextLazy]_vars
    /\ WF_vars(handle_message_values)
    /\ WF_vars(loop_compare)
    /\ SF_vars(loop_snapshot)
    /\ WF_vars(loop_writerow)
    /\ WF_vars(loop_flush)

\* One logging session on a file system that can refuse a successor file.
NextRotationFault ==
    \/ begin_logging \/ TickMono \/ process_message \/ send_can_row
    \/ process_message_rotation_fault \/ send_can_row_rotation_fault

SpecRotationFault == Init /\ [][NextRotationFault]_vars

\* One session of the two CSV loggers on a file system that can refuse a row.
NextLoggerFault ==
    \/ start_loggers \/ message_received \/ DriverTick
    \/ csv_write_loop \/ mcu_write_loop
    \/ csv_write_loop_fault \/ mcu_write_loop_fault

SpecLoggerFault == Init /\ [][NextLoggerFault]_vars

\* The reader thread and the transmit path of the GUI thread on one handle.
NextDriver ==
    \/ Stop \/ LoopHead \/ Initialize \/ GetStatus \/ Read \/ Halt
    \/ write_call \/ write_return

SpecDriver == Init /\ [][NextDriver]_vars

(***************************************************************************)
(* Claims about CANReader.run                                              *)
(***************************************************************************)
ConnTrueAt == {i \in DOMAIN events : events[i] = "conn_true"}
ConnFalseAt == {i \in DOMAIN events : events[i] = "conn_false"}

\* C1: between any two connectivity-true events a run emits there is a
\* connectivity-false event.
C1_NoDoubleConnect ==
    \A i \in ConnTrueAt : \A j \in ConnTrueAt :
        i < j => \E k \in ConnFalseAt : i < k /\ k < j

\* C1 witness: a run that reconnected, so two connectivity-true events are out.
C1_Witness == Cardinality(ConnTrueAt) >= 2

\* C2: every connectivity-false event of a run comes after a connectivity-true
\* event of that run.
C2_NoDisconnectBeforeConnect ==
    \A j \in ConnFalseAt : \E i \in ConnTrueAt : i < j

\* C2 witness: Initialize raised before the first connect (the diagnostic is the
\* first event), the run later connected and halted, and the only
\* connectivity-false it emitted is after the connect.
C2_Witness ==
    /\ Len(events) >= 3
    /\ events[1] = "diag"
    /\ ConnFalseAt # {}
    /\ pc = "halted"

\* C19: once stop() was called the run reaches its end; the step that ends it
\* closes the channel and emits exactly one connectivity-false when the
\* reader was connected and emits nothing when it was not; nothing is emitted
\* after the end.
C19_StopHalts ==
    /\ [](~running => <>(pc = "halted"))
    /\ [][ (pc # "halted" /\ pc' = "halted") =>
              /\ events' = (IF connected THEN events \o <<"conn_false">> ELSE events)
              /\ ~channel_open' /\ ~connected' ]_vars
    /\ [][ pc = "halted" => events' = events /\ pc' = "halted" ]_vars

\* C19 witness: a run that was stopped while connected, after a frame: it has
\* ended, the channel is closed and connectivity-false is the last event.
C19_Witness ==
    /\ pc = "halted" /\ ~running /\ ~channel_open
    /\ events = <<"conn_true", "frame", "conn_false">>

\* The step is a driver call of the reader thread: Initialize, GetStatus,
\* Read, or the Uninitialize at the end of run().
ReaderDriverCall ==
    \/ pc \in {"init", "status", "read"} /\ pc' # pc
    \/ pc = "stopping" /\ pc' = "halted" /\ connected

\* C21: no driver call of the reader thread runs while a driver Write of the
\* transmit path is under way on the same handle.
C21_DriverCallsSerialized ==
    [][ tx_call # <<>> => ~ReaderDriverCall ]_vars

\* The step is a Read that returned an error code other than success and
\* queue-empty: the one Read that emits a diagnostic and nothing else (a Read
\* that raises emits connectivity-false after its diagnostic).
ReadError == pc = "read" /\ events' = events \o <<"diag">>

\* C31: a Read that returned such an error code emits one diagnostic, no
\* frame and no connectivity event, and leaves the reader connected with the
\* channel open; a running reader polls the status next, and that poll leaves
\* it connected exactly when the status is normal.
C31_ReadErrorStaysConnected ==
    /\ [][ ReadError => connected' /\ channel_open' /\ pc' = "loop" ]_vars
    /\ [][ (pc = "loop" /\ pc' # "loop" /\ running /\ connected) =>
              pc' = "status" ]_vars
    /\ [][ (pc = "status" /\ pc' # "status") =>
              /\ connected' <=> pc' = "read"
              /\ ~connected' <=> (pc' = "loop" /\ events' # events) ]_vars

\* C31 witness: after the connect a Read returned an error code, the next
\* status poll was normal and the next Read delivered a frame.
C31_Witness ==
    /\ events = <<"conn_true", "diag", "frame">>
    /\ connected /\ channel_open

\* The connectivity events emitted so far, in order.
ConnEvents == SelectSeq(events, LAMBDA e : e \in {"conn_true", "conn_false"})

\* C34: the connectivity events of a run alternate, beginning with
\* connectivity-true: the 1st, 3rd, ... are connectivity-true and the 2nd,
\* 4th, ... connectivity-false, whichever of abnormal status, Read exception
\* and stop emitted them.
C34_ConnectivityAlternates ==
    \A i \in DOMAIN ConnEvents :
        ConnEvents[i] = (IF i % 2 = 1 THEN "conn_true" ELSE "conn_false")

\* C34 witness: a Read exception lost the first connection, the reader
\* connected again and was stopped.
C34_Witness ==
    /\ events = <<"conn_true", "diag", "conn_false", "conn_true", "conn_false">>
    /\ pc = "halted"

FramesAt == {i \in DOMAIN events : events[i] = "frame"}

\* C35: every frame a run emits comes after a connectivity-true with no
\* connectivity-false between the two; the step that emits it is taken by a
\* connected reader and leaves it connected; a halted run emits nothing.
C35_FramesOnlyWhileConnected ==
    /\ [](\A i \in FramesAt : \E j \in ConnTrueAt :
              j < i /\ \A k \in ConnFalseAt : ~(j < k /\ k < i))
    /\ [][ (events' # events /\ events'[Len(events')] = "frame") =>
              connected /\ channel_open /\ connected' ]_vars
    /\ [][ pc = "halted" => events' = events ]_vars

\* C35 witness: a frame in the second connection of a run that lost the first
\* one to an abnormal status.
C35_Witness ==
    /\ events = <<"conn_true", "conn_false", "conn_true", "frame">>
    /\ connected

\* C36: Initialize is called only by an unconnected reader on a closed
\* channel, so never twice without an Uninitialize between; GetStatus and
\* Read are called only by a connected reader on the open channel; the
\* channel is open exactly while the reader is connected, whichever of
\* abnormal status, Read exception and stop ended the connection.
C36_InitializeOnlyWhenClosed ==
    /\ [](connected <=> channel_open)
    /\ [](pc = "init" => ~connected /\ ~channel_open)
    /\ [](pc \in {"status", "read"} => connected /\ channel_open)
    /\ [][ (connected /\ ~connected') => ~channel_open' ]_vars

\* C36 witness: the reader is about to call Initialize again after a Read
\* exception ended its first connection.
C36_Witness ==
    /\ pc = "init" /\ ever_connected
    /\ events = <<"conn_true", "diag", "conn_false">>

\* The step is an Initialize call that did not succeed.
InitializeFailed == pc = "init" /\ pc' = "loop"

\* C30: a failed Initialize leaves the reader unconnected and emits no
\* connectivity event: nothing at all when the driver returned an error code,
\* one diagnostic when the call raised; the reader then calls Initialize
\* again, as long as it is not connected and not stopped.
C30_FailedInitRetries ==
    /\ [][ InitializeFailed =>
              /\ ~connected' /\ ~channel_open'
              /\ events' \in {events, events \o <<"diag">>} ]_vars
    /\ [][ (pc = "loop" /\ pc' # "loop" /\ running /\ ~connected) =>
              pc' = "init" ]_vars
    /\ []((pc = "loop" /\ ~connected) => <>(pc = "init" \/ ~running))

\* C30 as stated: a failed Initialize emits no event at all.
C30_Original == [][ InitializeFailed => events' = events ]_vars

\* C30 witness: Initialize raised, which left only a diagnostic, and the retry
\* connected.
C30_Witness ==
    /\ events = <<"diag", "conn_true">>
    /\ connected /\ pc = "status"

(***************************************************************************)
(* Claims about CANMirrorEngine.handle_rx                                  *)
(***************************************************************************)
\* The latest handle_rx call got as far as the driver Write.
Transmitted == last.written # <<>>
Msg == last.rx[1]
UsedRule == last.rule[1]
Tx == last.written[1]
ByteRulesUsed == UsedRule.byte_rules

\* Byte rule n of the latest call had an index inside the received payload.
InRange(n) == 0 <= ByteRulesUsed[n].index /\ ByteRulesUsed[n].index < Msg.LEN
\* Byte rule n is the only rule of its table on its index.
Sole(n) ==
    \A m \in DOMAIN ByteRulesUsed :
        m # n => ByteRulesUsed[m].index # ByteRulesUsed[n].index
\* The working byte rule n found and the one it left.
Before(n) == last.work[n][ByteRulesUsed[n].index + 1]
After(n) == last.work[n + 1][ByteRulesUsed[n].index + 1]
\* The received byte at rule n's index and the transmitted one.
Received(n) == Msg.DATA[ByteRulesUsed[n].index + 1]
Sent(n) == Tx.DATA[ByteRulesUsed[n].index + 1]

Offset(i, v) == [index |-> i, mode |-> "offset", value |-> v]
Replace(i, v) == [index |-> i, mode |-> "replace", value |-> v]

\* C3: an Offset byte rule that finds the byte 0 at its index leaves it 0, for
\* every rule value: in the working copy, and, when it is the only rule on that
\* index, in the transmitted frame for a received byte 0.
C3_OffsetZeroIsNoOp ==
    Transmitted =>
        \A n \in DOMAIN ByteRulesUsed :
            (ByteRulesUsed[n].mode = "offset" /\ InRange(n)) =>
                /\ Before(n) = 0 => After(n) = 0
                /\ (Sole(n) /\ Received(n) = 0) => Sent(n) = 0

\* C3 witness: Offset +10 alone on index 0 met a received byte 0 and the frame
\* went out with byte 0.
C3_Witness ==
    /\ Transmitted
    /\ ByteRulesUsed = << Offset(0, 10) >>
    /\ Msg.LEN = 1 /\ Msg.DATA[1] = 0
    /\ Tx.DATA[1] = 0

\* C4: an Offset byte rule that finds a non-zero byte b at its index leaves
\* b + value clamped to [0,255], for positive and negative values.
C4_OffsetClamps ==
    Transmitted =>
        \A n \in DOMAIN ByteRulesUsed :
            (ByteRulesUsed[n].mode = "offset" /\ InRange(n)) =>
                LET v == ByteRulesUsed[n].value
                    Expect(b) == IF b + v < 0 THEN 0
                                 ELSE IF b + v > 255 THEN 255 ELSE b + v
                IN /\ Before(n) # 0 =>
                        After(n) \in 0..255 /\ After(n) = Expect(Before(n))
                   /\ (Sole(n) /\ Received(n) # 0) =>
                        Sent(n) \in 0..255 /\ Sent(n) = Expect(Received(n))

\* C4 witness: 5 - 10 clamped to 0 on index 0 and 5 + 300 clamped to 255 on
\* index 1 of one frame.
C4_Witness ==
    /\ Transmitted
    /\ ByteRulesUsed = << Offset(0, -10), Offset(1, 300) >>
    /\ Msg.LEN = 2 /\ Msg.DATA[1] = 5 /\ Msg.DATA[2] = 5
    /\ Tx.DATA[1] = 0 /\ Tx.DATA[2] = 255

\* C5: a Replace byte rule with an index inside the payload leaves value & 0xFF
\* whatever byte it finds; when no later rule touches the index that is the
\* transmitted byte.
C5_ReplaceMasks ==
    Transmitted =>
        \A n \in DOMAIN ByteRulesUsed :
            (ByteRulesUsed[n].mode = "replace" /\ InRange(n)) =>
                /\ After(n) = ByteRulesUsed[n].value % 256
                /\ (\A m \in DOMAIN ByteRulesUsed :
                        m > n => ByteRulesUsed[m].index # ByteRulesUsed[n].index)
                     => Sent(n) = ByteRulesUsed[n].value % 256

\* C5 witness: Replace -10 on a received 0 gave 246, Replace 300 on a received
\* 5 gave 44.
C5_Witness ==
    /\ Transmitted
    /\ ByteRulesUsed = << Replace(0, -10), Replace(1, 300) >>
    /\ Msg.LEN = 2 /\ Msg.DATA[1] = 0 /\ Msg.DATA[2] = 5
    /\ Tx.DATA[1] = 246 /\ Tx.DATA[2] = 44

\* What one byte rule makes of the working copy it finds.
StepOf(work, br) ==
    [k \in DOMAIN work |->
        IF k # br.index + 1 THEN work[k]
        ELSE IF br.mode = "replace" THEN br.value % 256
        ELSE IF work[k] = 0 THEN 0
        ELSE IF work[k] + br.value < 0 THEN 0
        ELSE IF work[k] + br.value > 255 THEN 255
        ELSE work[k] + br.value]

\* C37: the byte rules are applied in table order, each to the working copy
\* the earlier ones left: the working copy starts as the received bytes, rule
\* n turns the copy after rule n-1 into the copy after rule n, a rule whose
\* index is outside the payload leaves the copy as it is, and the last copy
\* is what is transmitted. So Replace(i,0) then Offset(i,v) transmits 0 and
\* Replace(i,5) then Offset(i,10) transmits 15, also for a received byte 0.
C37_ByteRulesCumulative ==
    Transmitted =>
        /\ Len(last.work) = Len(ByteRulesUsed) + 1
        /\ last.work[1] = [k \in 1..Msg.LEN |-> Msg.DATA[k]]
        /\ \A n \in DOMAIN ByteRulesUsed :
              last.work[n + 1] =
                  (IF InRange(n) THEN StepOf(last.work[n], ByteRulesUsed[n])
                                 ELSE last.work[n])
        /\ \A k \in 1..Msg.LEN : Tx.DATA[k] = last.work[Len(last.work)][k]
        /\ \A i \in 0..(Msg.LEN - 1) : \A v \in {-10, 10, 300} :
              /\ ByteRulesUsed = << Replace(i, 0), Offset(i, v) >> =>
                    Tx.DATA[i + 1] = 0
              /\ ByteRulesUsed = << Replace(i, 5), Offset(i, 10) >> =>
                    Tx.DATA[i + 1] = 15

\* C37 witness: Replace(0,5) then Offset(0,10) on a received byte 0 sent 15.
C37_Witness ==
    /\ Transmitted
    /\ ByteRulesUsed = << Replace(0, 5), Offset(0, 10) >>
    /\ Msg.LEN = 1 /\ Msg.DATA[1] = 0
    /\ Tx.DATA[1] = 15

\* C37, an index outside the payload: Offset on index 1 of a one-byte frame
\* changed nothing and the Replace after it was applied.
C37_WitnessOutOfRange ==
    /\ Transmitted
    /\ ByteRulesUsed = << Offset(1, 10), Replace(0, 5) >>
    /\ Msg.LEN = 1 /\ Msg.DATA[1] = 0
    /\ Tx.DATA[1] = 5 /\ Tx.DATA[2] = 0

\* C6: under a rule with interval T > 0, two transmissions are never less than
\* T ms apart on the clock handle_rx reads, so two receipts less than T ms
\* apart produce at most one transmission (a failed Write is no transmission).
C6_RateLimit ==
    \A id \in DOMAIN rules :
        rules[id].interval > 0 =>
            \A k \in 1..(Len(sent[id]) - 1) :
                sent[id][k + 1] - sent[id][k] >= rules[id].interval

\* C6 witness: two receipts exactly T ms apart both transmitted, and the
\* receipt after them, less than T ms later, was rate-limited.
C6_Witness ==
    /\ 256 \in DOMAIN rules
    /\ rules[256].enabled /\ rules[256].interval = Interval
    /\ Len(sent[256]) = 2
    /\ sent[256][2] - sent[256][1] = Interval
    /\ last.rx # <<>> /\ last.rule # <<>> /\ ~Transmitted
    /\ clock - sent[256][2] < Interval

\* C7: after handle_rx(frame), get_rx_bytes(frame.id) is the first frame.length
\* received bytes padded with zeros to 8, whatever the rule did.
C7_CacheIsAsReceived ==
    last.rx # <<>> =>
        get_rx_bytes(Msg.ID) =
            [k \in 1..8 |-> IF k <= Msg.LEN THEN Msg.DATA[k] ELSE 0]

\* C7 witness: the frame went out with byte 0 changed by the rule, the bytes
\* beyond LEN of the received frame were not zero, and the cache shows the
\* received byte.
C7_Witness ==
    /\ Transmitted
    /\ Msg.LEN = 1 /\ Msg.DATA[2] # 0
    /\ Tx.DATA[1] # Msg.DATA[1]
    /\ get_rx_bytes(Msg.ID)[1] = Msg.DATA[1]

\* The rule of the example: 0x100 -> 0x200, unthrottled, Offset +10 on index 0.
ExampleRuleUsed ==
    /\ last.rx # <<>> /\ last.rule # <<>>
    /\ Msg.ID = 256
    /\ UsedRule.tx_id = 512 /\ UsedRule.interval = 0 /\ UsedRule.enabled
    /\ ByteRulesUsed = << Offset(0, 10) >>

\* C8 as stated: under the example rule, a frame 0x100 with byte 0 at index 0
\* causes no driver write.
C8_Original ==
    (ExampleRuleUsed /\ Msg.LEN = 1 /\ Msg.DATA[1] = 0) => ~Transmitted

\* C8 amended: under the example rule, a frame 0x100 with byte 0 at index 0 is
\* written to the driver as frame 0x200 with the byte still 0.
C8_ZeroByteStillTransmitted ==
    (ExampleRuleUsed /\ Msg.LEN = 1 /\ Msg.DATA[1] = 0) =>
        /\ Transmitted
        /\ Tx.ID = 512 /\ Tx.LEN = 1
        /\ Tx.DATA = <<0, 0, 0, 0, 0, 0, 0, 0>>

\* C8 witness: the example rule handled a frame with byte 0 at index 0.
C8_Witness ==
    /\ ExampleRuleUsed /\ Msg.LEN = 1 /\ Msg.DATA[1] = 0
    /\ last.result = "ok"

\* C9: a transmitted frame has the rule's tx_id and extended flag, the length
\* of the received frame, the transformed bytes and zeros up to 8; the example
\* rule on data [5] gives id 0x200, data [15,0,0,0,0,0,0,0].
C9_TxFrameShape ==
    Transmitted =>
        /\ Tx.ID = UsedRule.tx_id
        /\ Tx.MSGTYPE = (IF UsedRule.extended THEN "extended" ELSE "standard")
        /\ Tx.LEN = Msg.LEN
        /\ \A k \in 1..8 :
              Tx.DATA[k] = IF k <= Msg.LEN
                           THEN last.work[Len(last.work)][k] ELSE 0
        /\ (ByteRulesUsed = << Offset(0, 10) >> /\ Msg.LEN = 1 /\ Msg.DATA[1] = 5)
              => Tx.DATA = <<15, 0, 0, 0, 0, 0, 0, 0>>

\* C9 witness: the example rule mirrored the frame [5] as an extended frame.
C9_Witness ==
    /\ Transmitted
    /\ ByteRulesUsed = << Offset(0, 10) >>
    /\ UsedRule.extended
    /\ Msg.LEN = 1 /\ Msg.DATA[1] = 5
    /\ Tx.ID = 512 /\ Tx.DATA[1] = 15

\* The step is a handle_rx call: it left its record in `last` or in the cache.
HandledRx == last' # last \/ last_rx_data' # last_rx_data
\* The frame the call of the step received.
MsgNow == last'.rx[1]

\* The configuration of a rule: what add_rule was given.
Config(rule) == <<rule.tx_id, rule.extended, rule.interval, rule.byte_rules>>
\* The step put a rule under rx_id that replaces what the table held: where
\* there was none, one of another configuration, or one that had transmitted.
Installed(rx_id) ==
    /\ rx_id \in DOMAIN rules'
    /\ \/ rx_id \notin DOMAIN rules
       \/ Config(rules'[rx_id]) # Config(rules[rx_id])
       \/ sent[rx_id] # <<>> /\ sent'[rx_id] = <<>>

\* C27: the table holds one rule per rx_id; add_rule on an rx_id replaces the
\* whole entry: the new rule is enabled, its last_sent is 0 and the next
\* receipt is not rate-limited by the replaced rule's transmissions; the other
\* entries stay; and a handle_rx call works with the entry the table holds for
\* the frame's identifier when it is called, and no other.
C27_AddRuleReplaces ==
    /\ [][ \A rx_id \in RxIds :
              Installed(rx_id) =>
                 /\ rules'[rx_id].enabled
                 /\ rules'[rx_id].last_sent = 0
                 /\ ~RateLimited(rules'[rx_id], clock')
                 /\ \A other \in RxIds \ {rx_id} :
                       /\ (other \in DOMAIN rules') = (other \in DOMAIN rules)
                       /\ other \in DOMAIN rules => rules'[other] = rules[other] ]_vars
    /\ [][ (HandledRx /\ last'.rule # <<>>) =>
              /\ MsgNow.ID \in DOMAIN rules
              /\ last'.rule[1] = rules[MsgNow.ID]
              /\ last'.written # <<>> =>
                    /\ last'.written[1].ID = rules[MsgNow.ID].tx_id
                    /\ last'.written[1].MSGTYPE =
                          (IF rules[MsgNow.ID].extended THEN "extended" ELSE "standard")
                    /\ last'.work = WorkingCopies(RxData(MsgNow),
                                                  rules[MsgNow.ID].byte_rules) ]_vars

\* C27 witness: the rule 0x100 -> 0x200 transmitted and was then replaced by
\* the rule 0x100 -> 0x201, which the table holds enabled and with last_sent 0.
C27_Witness ==
    /\ Transmitted /\ last.result = "ok" /\ UsedRule.tx_id = 512
    /\ 256 \in DOMAIN rules
    /\ rules[256].tx_id = 513 /\ rules[256].enabled /\ rules[256].last_sent = 0
    /\ sent[256] = <<>>

\* C28: a handle_rx call that got to the driver Write sets the rule's
\* last_sent to the call's clock and invokes on_tx, when one is installed,
\* only when Write succeeded; when Write failed the rule table is unchanged,
\* on_tx is not invoked and a receipt at that moment is not rate-limited.
C28_FailedWriteLeavesState ==
    [][ (HandledRx /\ last'.written # <<>>) =>
           IF last'.result = "ok"
           THEN /\ rules' = [rules EXCEPT ![MsgNow.ID].last_sent = clock]
                /\ last'.notified = (IF on_tx THEN last'.written ELSE <<>>)
           ELSE /\ rules' = rules
                /\ last'.notified = <<>>
                /\ ~RateLimited(rules'[MsgNow.ID], clock') ]_vars

\* C28 witness: under the throttled rule, with on_tx installed, a Write
\* failed after an earlier transmission: last_sent is still that of the
\* earlier transmission.
C28_Witness ==
    /\ Transmitted /\ last.result = "fail" /\ on_tx
    /\ UsedRule.interval = Interval
    /\ Len(sent[256]) = 1
    /\ 256 \in DOMAIN rules /\ rules[256].last_sent = sent[256][1]
    /\ clock - rules[256].last_sent >= Interval

\* C29: a handle_rx call for a frame whose identifier has no rule, or a
\* disabled one, writes nothing to the driver, invokes no on_tx and leaves the
\* rule table as it is; it stores the received bytes in the cache under the
\* frame's identifier and changes no other cache entry.
C29_NoRuleOnlyCaches ==
    [][ (HandledRx /\
           (MsgNow.ID \notin DOMAIN rules \/ ~rules[MsgNow.ID].enabled)) =>
           /\ last'.written = <<>> /\ last'.notified = <<>>
           /\ last'.result = "none"
           /\ rules' = rules /\ on_tx' = on_tx
           /\ last_rx_data' = Put(last_rx_data, MsgNow.ID, RxData(MsgNow)) ]_vars

\* C29 witness: a frame arrived for a rule that had transmitted and was then
\* disabled: nothing written, the bytes cached, last_sent as it was.
C29_Witness ==
    /\ last.rx # <<>> /\ last.rule = <<>> /\ ~Transmitted
    /\ Msg.ID = 256 /\ Msg.LEN = 1
    /\ 256 \in DOMAIN rules /\ ~rules[256].enabled
    /\ Len(sent[256]) = 1 /\ rules[256].last_sent = sent[256][1]
    /\ last_rx_data[256] = RxData(Msg)

\* C20: while a handle_rx call is under way no other context reads or changes
\* the rule table or the RX cache: between the steps of the call the table
\* and the cache stay as they are and the display reads nothing.
C20_EngineAccessIsExclusive ==
    [][ (in_rx # <<>> /\ in_rx' # <<>>) =>
            /\ rules' = rules
            /\ last_rx_data' = last_rx_data
            /\ shown' = shown ]_vars

(***************************************************************************)
(* Claims about the trace writer                                           *)
(***************************************************************************)
DataOf(f) == SelectSeq(f, LAMBDA l : l.kind = "data")

HeadersOf(f) == SelectSeq(f, LAMBDA l : l.kind = "header")

\* C25: every trace file of the handler, the first one and those opened by
\* rotation, holds the header block exactly once, as its first line and so
\* before its data lines.
C25_HeaderOncePerFile ==
    \A f \in DOMAIN files :
        /\ Len(HeadersOf(files[f])) = 1
        /\ files[f][1].kind = "header"

\* The data lines of one logging session in the order they were written.
RECURSIVE Entries(_)
Entries(fs) == IF fs = <<>> THEN <<>> ELSE DataOf(Head(fs)) \o Entries(Tail(fs))

\* The Rx lines of the trace files in the order they were written.
RxEntries == SelectSeq(Entries(files), LAMBDA l : l.dir = "Rx")

\* C23: once the successor trace file could not be created, the trace writer
\* writes no further entry.
C23_NoEntryAfterFailedRotation ==
    [][ "rotation" \in faults => DataLines(files') = DataLines(files) ]_vars

\* C24: a CSV logger that met a write fault writes nothing further, and the
\* fault of one sink changes nothing of the other sinks.
C24_FaultedLoggerStops ==
    /\ [][ /\ "csv" \in faults => csv_logger'.file = csv_logger.file
           /\ "mcu" \in faults => mcu_logger'.file = mcu_logger.file ]_vars
    /\ [][ /\ "csv" \in faults' \ faults =>
                  mcu_logger' = mcu_logger /\ files' = files
           /\ "mcu" \in faults' \ faults =>
                  csv_logger' = csv_logger /\ files' = files ]_vars

\* In file f the lines a < b are data lines with no data line between them
\* and a comment between them.
AcrossComment(f, a, b) ==
    /\ a < b /\ f[a].kind = "data" /\ f[b].kind = "data"
    /\ \A p \in (a + 1)..(b - 1) : f[p].kind # "data"
    /\ \E p \in (a + 1)..(b - 1) : f[p].kind = "comment"

\* C32: a step that writes a comment line is a change of is_connected and
\* leaves message_count, the time base of the file and the data lines as
\* they are; in a file, the data line after a comment has the sequence number
\* following that of the data line before the comment.
C32_CommentKeepsNumbering ==
    /\ [][ CommentLines(files') > CommentLines(files) =>
              /\ is_connected' # is_connected
              /\ message_count' = message_count
              /\ log_base_ts_us' = log_base_ts_us
              /\ Entries(files') = Entries(files) ]_vars
    /\ [](\A k \in DOMAIN files : \A a \in DOMAIN files[k] : \A b \in DOMAIN files[k] :
              AcrossComment(files[k], a, b) =>
                  files[k][b].seq = files[k][a].seq + 1)

\* C32 witness: a file holds entry 1, the comment of a lost connection and
\* entry 2, written after the comment.
C32_Witness ==
    /\ logging /\ ~is_connected
    /\ \E k \in DOMAIN files :
          /\ Len(files[k]) = 3
          /\ files[k][1].kind = "data" /\ files[k][1].seq = 1
          /\ files[k][2].kind = "comment"
          /\ files[k][3].kind = "data" /\ files[k][3].seq = 2

\* C38: in every trace file the data lines, Rx and Tx alike, are numbered
\* 1, 2, 3, ... in the order written, whatever comments lie between them
\* and whichever rotation opened the file.
C38_SequenceNumbersDense ==
    \A k \in DOMAIN files :
        \A j \in DOMAIN DataOf(files[k]) : DataOf(files[k])[j].seq = j

\* C38 witness: the first file is full, and the file opened by rotation holds
\* an Rx and a Tx entry numbered 1 and 2 with a comment in the file.
C38_Witness ==
    /\ Len(files) = 2
    /\ Len(DataOf(files[1])) = 2
    /\ Len(DataOf(files[2])) = 2
    /\ DataOf(files[2])[1].dir # DataOf(files[2])[2].dir
    /\ DataOf(files[2])[2].seq = 2
    /\ \E p \in DOMAIN files[2] : files[2][p].kind = "comment"

\* C39: in every trace file the first data line has offset 0 and no data
\* line, Rx or Tx, has a negative offset or a log timestamp below that of the
\* first data line.
C39_OffsetsNonNegative ==
    \A k \in DOMAIN files :
        \A j \in DOMAIN DataOf(files[k]) :
            /\ DataOf(files[k])[1].off = 0
            /\ DataOf(files[k])[j].off >= 0
            /\ DataOf(files[k])[j].ts >= DataOf(files[k])[1].ts

\* C26: the Rx lines are written in the order the reader emitted the frames,
\* each frame once, and of two Rx lines in one file the one of the earlier
\* frame has the smaller sequence number; while logging, the lines recorded
\* are the Rx lines of the files.
C26_RxInArrivalOrder ==
    /\ \A i \in DOMAIN written_rx : \A j \in DOMAIN written_rx :
          i < j =>
             /\ written_rx[i].n < written_rx[j].n
             /\ written_rx[i].file = written_rx[j].file =>
                   written_rx[i].seq < written_rx[j].seq
    /\ logging =>
          /\ Len(RxEntries) = Len(written_rx)
          /\ \A k \in DOMAIN written_rx : RxEntries[k].seq = written_rx[k].seq

\* C26 witness: three frames written to two files with a Tx line between
\* them, two of them having waited in the queue together.
C26_Witness ==
    /\ logging /\ Len(files) = 2
    /\ Len(written_rx) = 3
    /\ written_rx[1].file = 1 /\ written_rx[3].file = 2
    /\ written_rx[3].seq > 1
    /\ written_rx[3].n - written_rx[2].n = 1
    /\ Len(Entries(files)) > Len(RxEntries)
    /\ last_drv_ts > 0 /\ log_ts_offset_us[1] + last_drv_ts < mono

(***************************************************************************)
(* Claims about the timestamp mapping                                      *)
(***************************************************************************)
\* C11: while the offset is frozen, any two driver timestamps d1, d2 mapped by
\* _log_timestamp_us differ by as much after the mapping as before it,
\* whatever the host clock read at either call.
C11_MappingKeepsDifferences ==
    \A i \in DOMAIN mapped : \A j \in DOMAIN mapped :
        mapped[i].t - mapped[j].t = mapped[i].d - mapped[j].d

\* C11 witness: two different driver timestamps mapped under one offset, the
\* second one at a later host clock and closer to it than the first one was.
C11_Witness ==
    /\ Len(mapped) >= 2
    /\ log_ts_offset_us # <<>>
    /\ mapped[1].d # mapped[2].d
    /\ mapped[1].at < mapped[2].at
    /\ mapped[2].at - mapped[2].d < mapped[1].at - mapped[1].d

\* C12: no frame is mapped with an offset that was anchored before the
\* connection session of that frame began, whatever the order in which the
\* queued frame and status signals and the user's disconnects are handled.
C12_NoOffsetFromEarlierSession ==
    handled # <<>> => ~handled[1].stale

\* C13: in one connection session, the log timestamps of the entries of a
\* trace, Rx and Tx in the order they were written, never decrease.
C13_OneIncreasingTimeBase ==
    \A k \in 1..(Len(Entries(files)) - 1) :
        Entries(files)[k].ts <= Entries(files)[k + 1].ts

(***************************************************************************)
(* Claims about the decoded-signal loggers                                 *)
(***************************************************************************)
\* A step in which the loggers handled a frame, and that frame.
Fed == fed' # fed /\ fed' # <<>>
FedMsg == fed'[1].msg
\* The cells of a logger other than Time.
SignalCells(L) == [k \in 2..Len(L.latest_values) |-> L.latest_values[k]]
\* The database an activated MCUCSVLogger uses.
McuDb == mcu_logger.db[1]

C15_LaterSelectorsChangeNothing ==
    [][ /\ (mcu_logger.running /\ mcu_logger'.running
               /\ mcu_logger.selected_variant # <<>>)
            => mcu_logger'.selected_variant = mcu_logger.selected_variant
        /\ (Fed /\ mcu_logger.running /\ mcu_logger.activated
               /\ FedMsg.ID = SelectorId)
            => /\ mcu_logger'.selected_variant = mcu_logger.selected_variant
               /\ mcu_logger'.db = mcu_logger.db
               /\ mcu_logger'.signal_list = mcu_logger.signal_list
               /\ mcu_logger'.latest_values = mcu_logger.latest_values
               /\ mcu_logger'.file = mcu_logger.file
      ]_vars

\* No frame was decoded since the activation: every signal cell is still 0
\* (no decoded value drawn is 0).
NothingDecoded(L) == \A k \in 2..Len(L.latest_values) : L.latest_values[k] = 0

\* C16: an activated MCUCSVLogger that has decoded no frame since its
\* activation has written no snapshot row: its file holds the two header rows.
C16_NoRowBeforeDecode ==
    (mcu_logger.activated /\ NothingDecoded(mcu_logger))
        => RowsOf(mcu_logger.file) = <<>> /\ Len(mcu_logger.file) = 2

C33_WitnessNoFrame ==
    /\ csv_logger.running /\ fed = <<>>
    /\ Len(csv_logger.file) = 3
    /\ \A k \in DOMAIN csv_logger.file[3].cells : csv_logger.file[3].cells[k] = 0

\* C17: a frame whose decode fails, for an unknown identifier or a payload too
\* short, leaves every signal cell of the logger as it was and the logger
\* running, in CSVLogger and in an activated MCUCSVLogger.
C17_FailedDecodeKeepsValues ==
    [][ Fed =>
          /\ (csv_logger.running /\ ~Decodes(csv_logger.db, FedMsg))
                => /\ csv_logger'.running
                   /\ SignalCells(csv_logger') = SignalCells(csv_logger)
          /\ (mcu_logger.running /\ mcu_logger.activated
                 /\ ~Decodes(McuDb, FedMsg))
                => /\ mcu_logger'.running /\ mcu_logger'.activated
                   /\ SignalCells(mcu_logger') = SignalCells(mcu_logger)
      ]_vars

\* C17 witness: both loggers hold a decoded value and the latest frame, too
\* short for its message, was decoded by neither.
C17_Witness ==
    /\ fed # <<>> /\ fed[1].msg.ID = 256 /\ fed[1].msg.LEN = 1
    /\ csv_logger.running /\ csv_logger.latest_values[2] = 5
    /\ mcu_logger.running /\ mcu_logger.activated
    /\ mcu_logger.latest_values[2] = 5
    /\ mcu_logger.update_counter >= 3

\* C18: in one logging session the Time a logger records is never negative
\* and never decreases from one frame to the next, also when the hardware
\* was lost and initialized again in between.
C18_TimeNeverDecreases ==
    [][ Fed =>
          /\ csv_logger.running =>
                /\ csv_logger'.latest_values[1] >= 0
                /\ csv_logger'.latest_values[1] >= csv_logger.latest_values[1]
          /\ (mcu_logger.running /\ mcu_logger.activated) =>
                /\ mcu_logger'.latest_values[1] >= 0
                /\ mcu_logger'.latest_values[1] >= mcu_logger.latest_values[1]
      ]_vars


UpdatePending(n) ==
    /\ mcu_logger.running /\ mcu_logger.activated
    /\ mcu_logger.update_counter >= n
    /\ mcu_logger.last_written_counter < n

\* The write loop holds a row it has handed to writerow, read under the lock
\* when the counter was at n or beyond.
RowTakenSince(n) ==
    /\ writer["mcu"].at = "flush"
    /\ writer["mcu"].counter >= n
    /\ pending["mcu"] # <<>>

=============================================================================
